---- MODULE Spec2Model ----
(***************************************************************************)
(* Model of the pptEditor document engine: the ChangeTracker (bounded      *)
(* undo/redo log), the PPTXEditor mutation API over the in-memory          *)
(* document, and the slide decoder of PPTXParser.                          *)
(*                                                                         *)
(* JavaScript objects are modelled as a heap.  An element object lives in  *)
(* `elems`; its position, size and content are separate objects living in  *)
(* `positions`, `sizes` and `contents`, and an element holds references    *)
(* (indices) to them.  A shallow copy `{ ...element }` therefore allocates *)
(* a new element object that SHARES the three sub-objects.  A style object *)
(* is never written in place by the editor (updateElementStyle replaces    *)
(* the reference by a freshly merged object), so styles are kept as values *)
(* inside the element object.                                              *)
(***************************************************************************)
EXTENDS Integers, Sequences, FiniteSets, TLC

VARIABLES
    options,        \* PPTXEditor.options: enableUndoRedo, maxUndoSteps
    maxUndoSteps,   \* ChangeTracker.maxUndoSteps
    changes,        \* ChangeTracker.changes
    currentIndex,   \* ChangeTracker.currentIndex
    nextChangeId,   \* number of ChangeRecords created so far (generateChangeId)
    document,       \* PPTXEditor.document: NULL or the parser's document object
    slides,         \* PPTXParser.document.slides (the one document object)
    elems,          \* heap of element objects
    positions,      \* heap of Position objects
    sizes,          \* heap of Size objects
    contents,       \* heap of content objects
    state,          \* PPTXEditor.state
    nextElemId,     \* number of element ids generated by addTextElement/addImageElement
    originalZip,    \* PPTXEditor.originalZip: the container of the last load
    exported,       \* PPTXExporter.zip: the container the last export built
    loading,        \* the loadPPTX call in flight: its container and the index
                    \* of the next slide relationship to decode, or NoLoad
    ops,            \* number of calls made on the editor
    last,           \* the last call: its name, target, argument and return
                    \* value, and what was observed just before it
    rec             \* the ChangeRecord handed to applyChange / revertChange

vars == <<options, maxUndoSteps, changes, currentIndex, nextChangeId, document,
          slides, elems, positions, sizes, contents, state, nextElemId,
          originalZip, exported, loading, ops, last, rec>>

trackerVars == <<changes, currentIndex, nextChangeId>>
heapVars == <<elems, positions, sizes, contents>>

NULL == "null"          \* null / undefined where a string is expected
NoRef == 0             \* the null reference to an element object
NoId == <<>>           \* undefined where an element id is expected
Nothing == <<>>        \* a call that returns null / nothing; a value v is <<v>>
Absent == [absent |-> TRUE]   \* the observable state of an element that is not there
DOC == "document"
NoZip == [nozip |-> TRUE]     \* no container: originalZip null, nothing exported
NoLoad == [idle |-> TRUE]     \* no loadPPTX call is in flight

\* ---------------------------------------------------------------- bounds
MaxCap == 2          \* capacities 1..MaxCap are tried besides the default
MaxRecords == 4      \* recordChange calls in the tracker specification
MaxOps == 4          \* calls made on the editor, loadPPTX included
MaxSlides == 2       \* slide relationships of a decoded container
MaxNodes == 2        \* children of a shape tree of a decoded container

DefaultMaxUndoSteps == 50

\* ---------------------------------------------------------------- helpers
Range(s) == {s[i] : i \in 1..Len(s)}

RECURSIVE SeqsUpTo(_, _)
SeqsUpTo(S, n) ==
    IF n = 0 THEN {<<>>}
    ELSE LET shorter == SeqsUpTo(S, n - 1)
         IN  shorter \cup {Append(s, x) : s \in {t \in shorter : Len(t) = n - 1}, x \in S}

\* Array.prototype.reverse
RECURSIVE Reverse(_)
Reverse(s) == IF s = <<>> THEN <<>> ELSE Append(Reverse(Tail(s)), Head(s))

\* Array.prototype.splice(i, 1) with a 1-based index
RemoveAt(s, i) == SubSeq(s, 1, i - 1) \o SubSeq(s, i + 1, Len(s))

\* ================================================================ ChangeTracker
ChangeTypes == {"add", "update", "delete"}

\* A tracker value is [changes, currentIndex]; currentIndex is 0-based as in
\* the source, so the record at the cursor is changes[currentIndex + 1].
Tracker(chs, idx) == [changes |-> chs, currentIndex |-> idx]

ChangeRecord(id, type, elementId, slideId, previousState, newState) ==
    [id |-> id, type |-> type, elementId |-> elementId, slideId |-> slideId,
     previousState |-> previousState, newState |-> newState]

recordChange_NoTruncate(t, cap, change) ==
    LET pushed == Append(t.changes, change)
        idx == t.currentIndex + 1
    IN  IF Len(pushed) > cap
        THEN Tracker(Tail(pushed), idx - 1)
        ELSE Tracker(pushed, idx)

recordChange_EvictNewest(t, cap, change) ==
    LET sliced == SubSeq(t.changes, 1, t.currentIndex + 1)
        pushed == Append(sliced, change)
        idx == t.currentIndex + 1
    IN  IF Len(pushed) > cap
        THEN Tracker(SubSeq(pushed, 1, Len(pushed) - 1), idx - 1)
        ELSE Tracker(pushed, idx)

recordChange(t, cap, change) ==
    LET sliced == SubSeq(t.changes, 1, t.currentIndex + 1)
        pushed == Append(sliced, change)
        idx == t.currentIndex + 1
    IN  IF Len(pushed) > cap
        THEN Tracker(Tail(pushed), idx - 1)
        ELSE Tracker(pushed, idx)

canUndo(t) == t.currentIndex >= 0

canRedo(t) == t.currentIndex < Len(t.changes) - 1

\* undo() and redo() give the tracker after the call and what is returned:
\* Nothing for null, <<record>> for a record
undo_KeepCursor(t) ==
    IF ~canUndo(t) THEN [t |-> t, ret |-> Nothing]
    ELSE [t |-> t, ret |-> <<t.changes[t.currentIndex + 1]>>]

undo(t) ==
    IF ~canUndo(t) THEN [t |-> t, ret |-> Nothing]
    ELSE [t |-> Tracker(t.changes, t.currentIndex - 1),
          ret |-> <<t.changes[t.currentIndex + 1]>>]

redo_KeepCursor(t) ==
    IF ~canRedo(t) THEN [t |-> t, ret |-> Nothing]
    ELSE [t |-> t, ret |-> <<t.changes[t.currentIndex + 2]>>]

redo(t) ==
    IF ~canRedo(t) THEN [t |-> t, ret |-> Nothing]
    ELSE [t |-> Tracker(t.changes, t.currentIndex + 1),
          ret |-> <<t.changes[t.currentIndex + 2]>>]

\* clearHistory() that leaves the log and the cursor as they are
clearHistory_Keep(t) == t

clearHistory(t) == Tracker(<<>>, -1)

\* revertToChange that accepts the index one past the last record
revertToChange_OffByOne(t, changeIndex) ==
    IF changeIndex < 0 \/ changeIndex > Len(t.changes)
    THEN [t |-> t, ret |-> <<>>, threw |-> TRUE]
    ELSE [t |-> Tracker(t.changes, changeIndex),
          ret |-> Reverse(SubSeq(t.changes, changeIndex + 2, Len(t.changes))),
          threw |-> FALSE]

\* revertToChange(changeIndex): throws on an index outside the log
revertToChange(t, changeIndex) ==
    IF changeIndex < 0 \/ changeIndex >= Len(t.changes)
    THEN [t |-> t, ret |-> <<>>, threw |-> TRUE]
    ELSE [t |-> Tracker(t.changes, changeIndex),
          ret |-> Reverse(SubSeq(t.changes, changeIndex + 2, Len(t.changes))),
          threw |-> FALSE]

revertAllChanges(t) == [t |-> clearHistory(t), ret |-> Reverse(t.changes)]

\* a filter that looks only at the records up to the cursor
getChangesForElement_UpToCursor(t, elementId) ==
    LET Test(c) == c.elementId = elementId
    IN  SelectSeq(SubSeq(t.changes, 1, t.currentIndex + 1), Test)

getChangesForElement(t, elementId) ==
    LET Test(c) == c.elementId = elementId IN SelectSeq(t.changes, Test)

getChangesForSlide(t, slideId) ==
    LET Test(c) == c.slideId = slideId IN SelectSeq(t.changes, Test)

getChangeSummary(t) ==
    LET IsAdd(c) == c.type = "add"
        IsUpdate(c) == c.type = "update"
        IsDelete(c) == c.type = "delete"
    IN  [totalChanges |-> Len(t.changes),
         additions |-> Len(SelectSeq(t.changes, IsAdd)),
         updates |-> Len(SelectSeq(t.changes, IsUpdate)),
         deletions |-> Len(SelectSeq(t.changes, IsDelete))]

\* ================================================================ Document model
\* The heap as one value, threaded through the decoder.
Heap(e, p, s, c) == [elems |-> e, positions |-> p, sizes |-> s, contents |-> c]

StyleKeys == {"fontSize", "fontFamily", "color", "backgroundColor"}
EmptyStyle == [k \in StyleKeys |-> NULL]

\* `{ ...element.style, ...style }`: the keys the partial style gives win
MergeStyle(old, partial) ==
    [k \in StyleKeys |-> IF partial[k] # NULL THEN partial[k] ELSE old[k]]

\* A new element object together with its own position, size and content objects
AllocElement(H, id, type, pos, size, content, style, zIndex) ==
    [H EXCEPT
        !.positions = Append(@, pos),
        !.sizes = Append(@, size),
        !.contents = Append(@, content),
        !.elems = Append(@, [id |-> id, type |-> type,
                             position |-> Len(H.positions) + 1,
                             size |-> Len(H.sizes) + 1,
                             content |-> Len(H.contents) + 1,
                             style |-> style, zIndex |-> zIndex])]

\* The observable state of the element object `ref`: every field followed
\* through its reference.
ViewIn(H, ref) ==
    IF ref = NoRef THEN Absent
    ELSE LET e == H.elems[ref]
         IN  [id |-> e.id, type |-> e.type,
              position |-> H.positions[e.position],
              size |-> H.sizes[e.size],
              content |-> H.contents[e.content],
              style |-> e.style, zIndex |-> e.zIndex]

TheHeap == Heap(elems, positions, sizes, contents)
View(ref) == ViewIn(TheHeap, ref)

\* slide.elements.findIndex(e => e.id === elementId), 1-based; 0 stands for -1
findIndex(E, elements, elementId) ==
    IF \E i \in 1..Len(elements) : E[elements[i]].id = elementId
    THEN CHOOSE i \in 1..Len(elements) :
            /\ E[elements[i]].id = elementId
            /\ \A j \in 1..(i - 1) : E[elements[j]].id # elementId
    ELSE 0

\* document.slides.find(s => s.id === slideId), 1-based; 0 when there is none
findSlide(sl, slideId) ==
    IF \E i \in 1..Len(sl) : sl[i].id = slideId
    THEN CHOOSE i \in 1..Len(sl) :
            /\ sl[i].id = slideId
            /\ \A j \in 1..(i - 1) : sl[j].id # slideId
    ELSE 0

applyChange_AddTwice(E, sl, change) ==
    LET si == findSlide(sl, change.slideId)
        ei == findIndex(E, sl[si].elements, change.elementId)
    IN  IF si = 0 THEN sl
        ELSE CASE change.type = "add" ->
                    IF change.newState # NoRef
                    THEN [sl EXCEPT ![si].elements = Append(Append(@, change.newState), change.newState)]
                    ELSE sl
               [] change.type = "update" ->
                    IF change.previousState # NoRef /\ change.newState # NoRef /\ ei # 0
                    THEN [sl EXCEPT ![si].elements[ei] = change.newState]
                    ELSE sl
               [] change.type = "delete" ->
                    IF change.previousState # NoRef /\ ei # 0
                    THEN [sl EXCEPT ![si].elements = RemoveAt(@, ei)]
                    ELSE sl

\* ChangeTracker.applyChange(document, change): the slides after the call.
\* It rewires slide.elements only; no element object is written.
applyChange(E, sl, change) ==
    LET si == findSlide(sl, change.slideId)
        ei == findIndex(E, sl[si].elements, change.elementId)
    IN  IF si = 0 THEN sl
        ELSE CASE change.type = "add" ->
                    IF change.newState # NoRef
                    THEN [sl EXCEPT ![si].elements = Append(@, change.newState)]
                    ELSE sl
               [] change.type = "update" ->
                    IF change.previousState # NoRef /\ change.newState # NoRef /\ ei # 0
                    THEN [sl EXCEPT ![si].elements[ei] = change.newState]
                    ELSE sl
               [] change.type = "delete" ->
                    IF change.previousState # NoRef /\ ei # 0
                    THEN [sl EXCEPT ![si].elements = RemoveAt(@, ei)]
                    ELSE sl

\* ChangeTracker.revertChange(document, change): the slides after the call
revertChange(E, sl, change) ==
    LET si == findSlide(sl, change.slideId)
        ei == findIndex(E, sl[si].elements, change.elementId)
    IN  IF si = 0 THEN sl
        ELSE CASE change.type = "add" ->
                    IF ei # 0
                    THEN [sl EXCEPT ![si].elements = RemoveAt(@, ei)]
                    ELSE sl
               [] change.type = "update" ->
                    IF change.previousState # NoRef /\ ei # 0
                    THEN [sl EXCEPT ![si].elements[ei] = change.previousState]
                    ELSE sl
               [] change.type = "delete" ->
                    IF change.previousState # NoRef
                    THEN [sl EXCEPT ![si].elements = Append(@, change.previousState)]
                    ELSE sl

\* changes.forEach(change => revertChange(document, change))
RECURSIVE revertEach(_, _, _)
revertEach(E, sl, chs) ==
    IF chs = <<>> THEN sl
    ELSE revertEach(E, revertChange(E, sl, Head(chs)), Tail(chs))

\* ================================================================ PPTXParser
\* A child of the shape tree: its tag, which of the sub-nodes the extractors
\* look for are present, its transform in EMU and its text.
Node(tag, spPr, txBody, blipFill, off, ext, text) ==
    [tag |-> tag, spPr |-> spPr, txBody |-> txBody, blipFill |-> blipFill,
     off |-> off, ext |-> ext, text |-> text]

EmuPerInch == 914400
PointsPerInch == 72

SpNode == Node("p:sp", TRUE, TRUE, FALSE, <<12700, 25400>>, <<127000, 63500>>, "Hello")
PicNode == Node("p:pic", TRUE, FALSE, TRUE, <<0, 0>>, <<127000, 127000>>, NULL)
TxBoxNode == Node("p:txBox", TRUE, TRUE, FALSE, <<25400, 12700>>, <<127000, 63500>>, "Hello")
BadSpNode == Node("p:sp", FALSE, TRUE, FALSE, <<0, 0>>, <<0, 0>>, "Hello")
TitleNode == Node("p:sp", TRUE, TRUE, FALSE, <<0, 0>>, <<127000, 63500>>, "Title")
PaddedTxBoxNode == Node("p:txBox", TRUE, TRUE, FALSE, <<0, 0>>, <<127000, 63500>>, " Hello ")

\* textContent.trim() on the text of a leaf node, for the sample texts
Trim(text) == IF text = " Hello " THEN "Hello" ELSE text


\* xmlToObject groups the element children of a node by tag name; the keys of
\* the resulting object come in the order in which each tag first appears.
RECURSIVE TagOrder(_, _)
TagOrder(nodes, acc) ==
    IF nodes = <<>> THEN acc
    ELSE TagOrder(Tail(nodes),
                  IF Head(nodes).tag \in Range(acc) THEN acc
                  ELSE Append(acc, Head(nodes).tag))

xmlToObject(nodes) ==
    LET keys == TagOrder(nodes, <<>>)
    IN  [i \in 1..Len(keys) |->
            LET HasTag(n) == n.tag = keys[i]
            IN  [key |-> keys[i], nodes |-> SelectSeq(nodes, HasTag)]]

\* allChildNodes.forEach(nodeType => nodes.forEach(...)): the order in which
\* parseSlide visits the children
RECURSIVE Flatten(_)
Flatten(groups) ==
    IF groups = <<>> THEN <<>> ELSE Head(groups).nodes \o Flatten(Tail(groups))

\* parseInt(v || '0') * 72 / 914400 (the sample transforms are whole points)
EmuToPoints(v) == (v * PointsPerInch) \div EmuPerInch

parsePosition(node) == [x |-> EmuToPoints(node.off[1]), y |-> EmuToPoints(node.off[2])]
parseSize(node) == [width |-> EmuToPoints(node.ext[1]), height |-> EmuToPoints(node.ext[2])]

\* The extractor for `node` with id index `index`: ok is FALSE when the
\* extractor returns null or the tag has no extractor, else H is the heap
\* holding the new element as its last element object.
Extracted(H) == [ok |-> TRUE, H |-> H]
NotExtracted(H) == [ok |-> FALSE, H |-> H]

parseElement(H, node, index) ==
    CASE node.tag = "p:sp" ->
            IF ~node.spPr THEN NotExtracted(H)
            ELSE Extracted(AllocElement(H, <<"shape", index>>, "shape",
                              parsePosition(node), parseSize(node),
                              [text |-> IF node.txBody THEN Trim(node.text) ELSE "", image |-> NULL],
                              EmptyStyle, index))
      [] node.tag = "p:pic" ->
            IF ~node.spPr \/ ~node.blipFill THEN NotExtracted(H)
            ELSE Extracted(AllocElement(H, <<"picture", index>>, "image",
                              parsePosition(node), parseSize(node),
                              [text |-> NULL, image |-> "rId"],
                              EmptyStyle, index))
      [] node.tag = "p:txBox" ->
            IF ~node.spPr \/ ~node.txBody THEN NotExtracted(H)
            ELSE Extracted(AllocElement(H, <<"textbox", index>>, "text",
                              parsePosition(node), parseSize(node),
                              [text |-> Trim(node.text), image |-> NULL],
                              EmptyStyle, index))
      [] OTHER -> NotExtracted(H)

\* The loop body of parseSlide over the visited children: globalIndex counts
\* the elements extracted so far and is both the id index and the zIndex.
RECURSIVE parseNodes(_, _, _, _)
parseNodes(H, nodes, globalIndex, elements) ==
    IF nodes = <<>> THEN [H |-> H, elements |-> elements]
    ELSE LET r == parseElement(H, Head(nodes), globalIndex)
         IN  IF ~r.ok
             THEN parseNodes(H, Tail(nodes), globalIndex, elements)
             ELSE parseNodes(r.H, Tail(nodes), globalIndex + 1,
                             Append(elements, Len(r.H.elems)))

\* A slide part: whether the part exists in the archive, whether its p:cSld
\* node exists, whether that has a p:spTree, and the children of the p:spTree.
SlidePart(exists, cSld, hasSpTree, spTree) ==
    [exists |-> exists, cSld |-> cSld, hasSpTree |-> hasSpTree, spTree |-> spTree]

MissingPart == SlidePart(FALSE, FALSE, FALSE, <<>>)
NoSlideData == SlidePart(TRUE, FALSE, FALSE, <<>>)
NoShapeTree == SlidePart(TRUE, TRUE, FALSE, <<>>)
SlideOf(spTree) == SlidePart(TRUE, TRUE, TRUE, spTree)

NoSlide == [id |-> <<"slide", 0>>, slideNumber |-> 0, elements |-> <<>>]

\* parseSlide(slidePath, slideNumber): ok is FALSE when it returns null
parseSlide(H, part, slideNumber) ==
    IF ~part.exists \/ ~part.cSld THEN [ok |-> FALSE, H |-> H, slide |-> NoSlide]
    ELSE LET parsed == IF ~part.hasSpTree
                       THEN [H |-> H, elements |-> <<>>]
                       ELSE parseNodes(H, Flatten(xmlToObject(part.spTree)), 0, <<>>)
         IN  [ok |-> TRUE, H |-> parsed.H,
              slide |-> [id |-> <<"slide", slideNumber>>,
                         slideNumber |-> slideNumber,
                         elements |-> parsed.elements]]

\* A container: whether ppt/_rels/presentation.xml.rels exists, its slide
\* targets in relationship order, and the slide parts by target number
\* (ppt/slides/slide<n>.xml).
\* Besides these it holds docProps/app.xml, docProps/core.xml and a media part.
AppPart(exists, title) == [exists |-> exists, title |-> title]
CorePart(exists, modified) == [exists |-> exists, modified |-> modified]
SampleApp == AppPart(TRUE, "Deck")
SampleCore == CorePart(TRUE, "2024-01-01")
MediaBytes == "png"

Container(hasRels, rels, parts) ==
    [hasRels |-> hasRels, rels |-> rels, parts |-> parts,
     app |-> SampleApp, core |-> SampleCore, media |-> MediaBytes]

\* parseSlides(): the loop over slideRels, pushing onto this.document.slides
\* a loop that gives up at the first slide that does not decode
RECURSIVE parseSlidesFrom_StopAtFailure(_, _, _, _)
parseSlidesFrom_StopAtFailure(H, sl, c, i) ==
    IF i > Len(c.rels) THEN [H |-> H, slides |-> sl]
    ELSE LET r == parseSlide(H, c.parts[c.rels[i]], i)
         IN  IF r.ok
             THEN parseSlidesFrom_StopAtFailure(r.H, Append(sl, r.slide), c, i + 1)
             ELSE [H |-> H, slides |-> sl]

RECURSIVE parseSlidesFrom(_, _, _, _)
parseSlidesFrom(H, sl, c, i) ==
    IF i > Len(c.rels) THEN [H |-> H, slides |-> sl]
    ELSE LET r == parseSlide(H, c.parts[c.rels[i]], i)
         IN  parseSlidesFrom(r.H,
                             IF r.ok THEN Append(sl, r.slide) ELSE sl,
                             c, i + 1)

parseSlides(H, sl, c) ==
    IF ~c.hasRels THEN [H |-> H, slides |-> sl]
    ELSE parseSlidesFrom(H, sl, c, 1)

\* ================================================================ PPTXEditor
\* The editor as one value: S.document is NULL or DOC (the parser's one
\* document object, whose slides are S.slides), S.H the heap, S.t the
\* tracker, S.cap its capacity, S.n the number of records created so far,
\* S.state the EditorState, S.nextElemId the number of generated element ids.
Editor ==
    [options |-> options, cap |-> maxUndoSteps,
     t |-> Tracker(changes, currentIndex), n |-> nextChangeId,
     document |-> document, slides |-> slides, H |-> TheHeap,
     state |-> state, nextElemId |-> nextElemId, originalZip |-> originalZip]

\* What a call gives: the editor after it, the returned value (Nothing for
\* void / null), whether it threw, and whether it found its target.
Result(S, ret, threw, found) == [S |-> S, ret |-> ret, threw |-> threw, found |-> found]

\* constructor(options): `options.maxUndoSteps || 50`; 0 stands for an option
\* that is not given
NewEditor(enableUndoRedo, maxUndoStepsOption) ==
    [options |-> [enableUndoRedo |-> enableUndoRedo, maxUndoSteps |-> maxUndoStepsOption],
     cap |-> IF maxUndoStepsOption = 0 THEN DefaultMaxUndoSteps ELSE maxUndoStepsOption,
     t |-> Tracker(<<>>, -1), n |-> 0,
     document |-> NULL, slides |-> <<>>, H |-> Heap(<<>>, <<>>, <<>>, <<>>),
     state |-> [currentSlide |-> 0, selectedElement |-> NoId, changes |-> <<>>,
                canUndo |-> FALSE, canRedo |-> FALSE],
     nextElemId |-> 0, originalZip |-> NoZip]

\* getSlides(): `this.document?.slides || []`
getSlides(S) == IF S.document = NULL THEN <<>> ELSE S.slides

\* getCurrentSlide(): the 1-based index into S.slides, 0 for null
getCurrentSlide(S) ==
    IF S.document = NULL THEN 0
    ELSE IF S.state.currentSlide + 1 \in 1..Len(S.slides) THEN S.state.currentSlide + 1
    ELSE 0

updateState(S) ==
    [S EXCEPT !.state.changes = S.t.changes,
              !.state.canUndo = canUndo(S.t),
              !.state.canRedo = canRedo(S.t)]

Editor_recordChange_Always(S, type, elementId, slideId, previousState, newState) ==
    updateState([S EXCEPT
        !.t = recordChange(S.t, S.cap,
                  ChangeRecord(S.n, type, elementId, slideId, previousState, newState)),
        !.n = S.n + 1])

\* private recordChange(...) of the editor
Editor_recordChange(S, type, elementId, slideId, previousState, newState) ==
    IF ~S.options.enableUndoRedo THEN S
    ELSE updateState([S EXCEPT
            !.t = recordChange(S.t, S.cap,
                      ChangeRecord(S.n, type, elementId, slideId, previousState, newState)),
            !.n = S.n + 1])

\* `{ ...element }`: a new element object with the same field values, so the
\* same position, size and content objects
ShallowCopy(H, ref) == [H EXCEPT !.elems = Append(@, H.elems[ref])]

Editor_updateText(S, elementId, newText) ==
    LET si == getCurrentSlide(S)
        ei == findIndex(S.H.elems, S.slides[si].elements, elementId)
        ref == S.slides[si].elements[ei]
        H1 == ShallowCopy(S.H, ref)
        previousState == Len(H1.elems)
        H2 == [H1 EXCEPT !.contents[H1.elems[ref].content].text = newText]
    IN  IF S.document = NULL \/ si = 0 THEN Result(S, Nothing, FALSE, FALSE)
        ELSE IF ei = 0 THEN Result(S, Nothing, FALSE, FALSE)
        ELSE IF S.H.elems[ref].type # "text" THEN Result(S, Nothing, FALSE, FALSE)
        ELSE Result(Editor_recordChange([S EXCEPT !.H = H2], "update", elementId,
                                        S.slides[si].id, previousState, ref),
                    Nothing, FALSE, TRUE)

Editor_updateElementPosition(S, elementId, x, y) ==
    LET si == getCurrentSlide(S)
        ei == findIndex(S.H.elems, S.slides[si].elements, elementId)
        ref == S.slides[si].elements[ei]
        H1 == ShallowCopy(S.H, ref)
        previousState == Len(H1.elems)
        H2 == [H1 EXCEPT !.positions[H1.elems[ref].position] = [x |-> x, y |-> y]]
    IN  IF S.document = NULL \/ si = 0 THEN Result(S, Nothing, FALSE, FALSE)
        ELSE IF ei = 0 THEN Result(S, Nothing, FALSE, FALSE)
        ELSE Result(Editor_recordChange([S EXCEPT !.H = H2], "update", elementId,
                                        S.slides[si].id, previousState, ref),
                    Nothing, FALSE, TRUE)

Editor_updateElementSize(S, elementId, width, height) ==
    LET si == getCurrentSlide(S)
        ei == findIndex(S.H.elems, S.slides[si].elements, elementId)
        ref == S.slides[si].elements[ei]
        H1 == ShallowCopy(S.H, ref)
        previousState == Len(H1.elems)
        H2 == [H1 EXCEPT !.sizes[H1.elems[ref].size] = [width |-> width, height |-> height]]
    IN  IF S.document = NULL \/ si = 0 THEN Result(S, Nothing, FALSE, FALSE)
        ELSE IF ei = 0 THEN Result(S, Nothing, FALSE, FALSE)
        ELSE Result(Editor_recordChange([S EXCEPT !.H = H2], "update", elementId,
                                        S.slides[si].id, previousState, ref),
                    Nothing, FALSE, TRUE)

\* element.style = { ...element.style, ...style } writes the element object
\* itself: the copy taken before keeps the old style.
Editor_updateElementStyle(S, elementId, style) ==
    LET si == getCurrentSlide(S)
        ei == findIndex(S.H.elems, S.slides[si].elements, elementId)
        ref == S.slides[si].elements[ei]
        H1 == ShallowCopy(S.H, ref)
        previousState == Len(H1.elems)
        H2 == [H1 EXCEPT !.elems[ref].style = MergeStyle(@, style)]
    IN  IF S.document = NULL \/ si = 0 THEN Result(S, Nothing, FALSE, FALSE)
        ELSE IF ei = 0 THEN Result(S, Nothing, FALSE, FALSE)
        ELSE Result(Editor_recordChange([S EXCEPT !.H = H2], "update", elementId,
                                        S.slides[si].id, previousState, ref),
                    Nothing, FALSE, TRUE)

AddedTextStyle ==
    [EmptyStyle EXCEPT !["fontSize"] = "14", !["fontFamily"] = "Arial", !["color"] = "#000000"]

\* zIndex is not set on an added element: -1 stands for undefined
NoZIndex == -1

Editor_addTextElement(S, text, x, y, width, height) ==
    LET si == getCurrentSlide(S)
        elementId == <<"text", S.nextElemId>>
        H1 == AllocElement(S.H, elementId, "text", [x |-> x, y |-> y],
                           [width |-> width, height |-> height],
                           [text |-> text, image |-> NULL], AddedTextStyle, NoZIndex)
        newElement == Len(H1.elems)
        S1 == [S EXCEPT !.H = H1, !.nextElemId = @ + 1,
                        !.slides[si].elements = Append(@, newElement)]
    IN  IF S.document = NULL \/ si = 0 THEN Result(S, Nothing, TRUE, FALSE)
        ELSE Result(Editor_recordChange(S1, "add", elementId, S.slides[si].id,
                                        NoRef, newElement),
                    <<elementId>>, FALSE, TRUE)

Editor_addImageElement(S, imageUrl, x, y, width, height) ==
    LET si == getCurrentSlide(S)
        elementId == <<"image", S.nextElemId>>
        H1 == AllocElement(S.H, elementId, "image", [x |-> x, y |-> y],
                           [width |-> width, height |-> height],
                           [text |-> NULL, image |-> imageUrl], EmptyStyle, NoZIndex)
        newElement == Len(H1.elems)
        S1 == [S EXCEPT !.H = H1, !.nextElemId = @ + 1,
                        !.slides[si].elements = Append(@, newElement)]
    IN  IF S.document = NULL \/ si = 0 THEN Result(S, Nothing, TRUE, FALSE)
        ELSE Result(Editor_recordChange(S1, "add", elementId, S.slides[si].id,
                                        NoRef, newElement),
                    <<elementId>>, FALSE, TRUE)

Editor_deselectElement(S) == updateState([S EXCEPT !.state.selectedElement = NoId])

Editor_selectElement(S, elementId) ==
    updateState([S EXCEPT !.state.selectedElement = elementId])

Editor_deleteElement_RecordsMissing(S, elementId) ==
    LET si == getCurrentSlide(S)
        ei == findIndex(S.H.elems, S.slides[si].elements, elementId)
        deletedElement == S.slides[si].elements[ei]
        S1 == [S EXCEPT !.slides[si].elements = RemoveAt(@, ei)]
        S2 == Editor_recordChange(S1, "delete", elementId, S.slides[si].id,
                                  deletedElement, NoRef)
    IN  IF S.document = NULL \/ si = 0 THEN Result(S, Nothing, FALSE, FALSE)
        ELSE IF ei = 0
        THEN Result(Editor_recordChange(S, "delete", elementId, S.slides[si].id,
                                        NoRef, NoRef),
                    Nothing, FALSE, FALSE)
        ELSE Result(IF S2.state.selectedElement = elementId
                    THEN Editor_deselectElement(S2) ELSE S2,
                    Nothing, FALSE, TRUE)

\* deleteElement that leaves the selection to its caller
Editor_deleteElement_KeepsSelection(S, elementId) ==
    LET si == getCurrentSlide(S)
        ei == findIndex(S.H.elems, S.slides[si].elements, elementId)
        deletedElement == S.slides[si].elements[ei]
        S1 == [S EXCEPT !.slides[si].elements = RemoveAt(@, ei)]
        S2 == Editor_recordChange(S1, "delete", elementId, S.slides[si].id,
                                  deletedElement, NoRef)
    IN  IF S.document = NULL \/ si = 0 THEN Result(S, Nothing, FALSE, FALSE)
        ELSE IF ei = 0 THEN Result(S, Nothing, FALSE, FALSE)
        ELSE Result(S2, Nothing, FALSE, TRUE)

Editor_deleteElement(S, elementId) ==
    LET si == getCurrentSlide(S)
        ei == findIndex(S.H.elems, S.slides[si].elements, elementId)
        deletedElement == S.slides[si].elements[ei]
        S1 == [S EXCEPT !.slides[si].elements = RemoveAt(@, ei)]
        S2 == Editor_recordChange(S1, "delete", elementId, S.slides[si].id,
                                  deletedElement, NoRef)
    IN  IF S.document = NULL \/ si = 0 THEN Result(S, Nothing, FALSE, FALSE)
        ELSE IF ei = 0 THEN Result(S, Nothing, FALSE, FALSE)
        ELSE Result(IF S2.state.selectedElement = elementId
                    THEN Editor_deselectElement(S2) ELSE S2,
                    Nothing, FALSE, TRUE)

Editor_goToSlide(S, slideNumber) ==
    IF S.document # NULL /\ slideNumber >= 0 /\ slideNumber < Len(S.slides)
    THEN updateState([S EXCEPT !.state.currentSlide = slideNumber,
                               !.state.selectedElement = NoId])
    ELSE S

\* undo() that reports success when the tracker has nothing to undo
Editor_undo_AlwaysTrue(S) ==
    LET r == undo(S.t)
        change == r.ret[1]
        S1 == [S EXCEPT !.t = r.t]
        S2 == IF S.document # NULL
              THEN [S1 EXCEPT !.slides = revertChange(S.H.elems, S.slides, change)]
              ELSE S1
    IN  IF ~S.options.enableUndoRedo THEN Result(S, <<FALSE>>, FALSE, FALSE)
        ELSE IF r.ret = Nothing THEN Result(S1, <<TRUE>>, FALSE, FALSE)
        ELSE Result(updateState(S2), <<TRUE>>, FALSE, TRUE)

Editor_undo(S) ==
    LET r == undo(S.t)
        change == r.ret[1]
        S1 == [S EXCEPT !.t = r.t]
        S2 == IF S.document # NULL
              THEN [S1 EXCEPT !.slides = revertChange(S.H.elems, S.slides, change)]
              ELSE S1
    IN  IF ~S.options.enableUndoRedo THEN Result(S, <<FALSE>>, FALSE, FALSE)
        ELSE IF r.ret = Nothing THEN Result(S1, <<FALSE>>, FALSE, FALSE)
        ELSE Result(updateState(S2), <<TRUE>>, FALSE, TRUE)

Editor_redo(S) ==
    LET r == redo(S.t)
        change == r.ret[1]
        S1 == [S EXCEPT !.t = r.t]
        S2 == IF S.document # NULL
              THEN [S1 EXCEPT !.slides = applyChange(S.H.elems, S.slides, change)]
              ELSE S1
    IN  IF ~S.options.enableUndoRedo THEN Result(S, <<FALSE>>, FALSE, FALSE)
        ELSE IF r.ret = Nothing THEN Result(S1, <<FALSE>>, FALSE, FALSE)
        ELSE Result(updateState(S2), <<TRUE>>, FALSE, TRUE)

Editor_revertAllChanges(S) ==
    LET r == revertAllChanges(S.t)
    IN  IF S.document = NULL THEN S
        ELSE updateState([S EXCEPT !.t = r.t,
                                   !.slides = revertEach(S.H.elems, S.slides, r.ret)])

Editor_revertSlideChanges(S, slideId) ==
    IF S.document = NULL THEN S
    ELSE updateState([S EXCEPT
            !.slides = revertEach(S.H.elems, S.slides, getChangesForSlide(S.t, slideId))])

\* loadPPTX(file): the parser pushes the decoded slides onto its one document
\* object, which the editor then holds; the history is cleared.
Editor_loadPPTX(S, c) ==
    LET parsed == parseSlides(S.H, S.slides, c)
    IN  updateState([S EXCEPT !.originalZip = c,
                              !.H = parsed.H, !.slides = parsed.slides,
                              !.document = DOC, !.t = clearHistory(S.t)])

\* ================================================================ Specifications
Install(S) ==
    /\ options' = S.options
    /\ maxUndoSteps' = S.cap
    /\ changes' = S.t.changes
    /\ currentIndex' = S.t.currentIndex
    /\ nextChangeId' = S.n
    /\ document' = S.document
    /\ slides' = S.slides
    /\ elems' = S.H.elems
    /\ positions' = S.H.positions
    /\ sizes' = S.H.sizes
    /\ contents' = S.H.contents
    /\ state' = S.state
    /\ nextElemId' = S.nextElemId
    /\ originalZip' = S.originalZip

\* The observable state of the first element with id `elementId` on the
\* slide with 1-based index `si` of editor S, Absent when there is none
ElementViewIn(S, si, elementId) ==
    LET ei == findIndex(S.H.elems, S.slides[si].elements, elementId)
    IN  IF si = 0 THEN Absent
        ELSE IF ei = 0 THEN Absent
        ELSE ViewIn(S.H, S.slides[si].elements[ei])

\* The record of a call: op, the target id, the argument, what it returned,
\* whether it threw, whether it got past its guards (found), and from before
\* the call: the target's observable state on the current slide (preView),
\* the cursor (preIndex), the log length (preLen) and the selected element
\* (preSelected).  run counts the
\* recordChange calls made in a row on the tracker, this one included.
Call(op, elementId, arg, ret, threw, found) ==
    [op |-> op, elementId |-> elementId, arg |-> arg, ret |-> ret,
     threw |-> threw, found |-> found,
     preView |-> ElementViewIn(Editor, getCurrentSlide(Editor), elementId),
     preIndex |-> currentIndex, preLen |-> Len(changes),
     preSelected |-> state.selectedElement,
     run |-> IF op # "recordChange" THEN 0
             ELSE IF last.op = op THEN last.run + 1 ELSE 1]

NoCall == [op |-> "new", elementId |-> NoId, arg |-> Nothing, ret |-> Nothing,
           threw |-> FALSE, found |-> FALSE, preView |-> Absent,
           preIndex |-> -1, preLen |-> 0, preSelected |-> NoId, run |-> 0]

NoRecord == ChangeRecord(0, "add", NoId, <<"slide", 0>>, NoRef, NoRef)

\* ---------------------------------------------------------------- inputs
NewTexts == {"World"}
Points == {<<10, 20>>}
Extents == {<<50, 60>>}
PartialStyles == {[EmptyStyle EXCEPT !["color"] = "#ff0000"]}
ImageUrls == {"data:image/png"}
MissingId == <<"missing", 0>>
MissingSlideId == <<"slide", 0>>

\* One slide holding the text box "Hello"; two slides whose decoded ids
\* collide; a presentation without slides.
HelloContainer ==
    Container(TRUE, <<1>>, [n \in 1..MaxSlides |->
        IF n = 1 THEN SlideOf(<<TxBoxNode>>) ELSE MissingPart])
TwoSlideContainer ==
    Container(TRUE, <<1, 2>>, [n \in 1..MaxSlides |->
        IF n = 1 THEN SlideOf(<<TxBoxNode, PicNode>>)
        ELSE IF n = 2 THEN SlideOf(<<TxBoxNode>>) ELSE MissingPart])
EmptyContainer == Container(TRUE, <<>>, [n \in 1..MaxSlides |-> MissingPart])

SampleContainers == {HelloContainer, TwoSlideContainer, EmptyContainer}

ElementIdArgs == {elems[r].id : r \in 1..Len(elems)} \cup {MissingId}
SlideIdArgs == {slides[i].id : i \in 1..Len(slides)} \cup {MissingSlideId}

\* ---------------------------------------------------------------- editor
StartAs(S) ==
    /\ options = S.options
    /\ maxUndoSteps = S.cap
    /\ changes = S.t.changes
    /\ currentIndex = S.t.currentIndex
    /\ nextChangeId = S.n
    /\ document = S.document
    /\ slides = S.slides
    /\ elems = S.H.elems
    /\ positions = S.H.positions
    /\ sizes = S.H.sizes
    /\ contents = S.H.contents
    /\ state = S.state
    /\ nextElemId = S.nextElemId
    /\ originalZip = S.originalZip
    /\ exported = NoZip
    /\ loading = NoLoad

Init ==
    /\ \E e \in BOOLEAN, m \in 0..MaxCap : StartAs(NewEditor(e, m))
    /\ ops = 0
    /\ last = NoCall
    /\ rec = NoRecord

\* One call on the editor: r is what the method gives on the current editor
Invoke(op, elementId, arg, r) ==
    /\ ops < MaxOps
    /\ Install(r.S)
    /\ last' = Call(op, elementId, arg, r.ret, r.threw, r.found)
    /\ ops' = ops + 1
    /\ UNCHANGED <<exported, loading, rec>>

LoadPPTX ==
    \E c \in SampleContainers :
        Invoke("loadPPTX", NoId, Nothing,
               Result(Editor_loadPPTX(Editor, c), Nothing, FALSE, TRUE))

UpdateText ==
    \E id \in ElementIdArgs, text \in NewTexts :
        Invoke("updateText", id, text, Editor_updateText(Editor, id, text))

UpdateElementPosition ==
    \E id \in ElementIdArgs, p \in Points :
        Invoke("updateElementPosition", id, p,
               Editor_updateElementPosition(Editor, id, p[1], p[2]))

UpdateElementSize ==
    \E id \in ElementIdArgs, e \in Extents :
        Invoke("updateElementSize", id, e,
               Editor_updateElementSize(Editor, id, e[1], e[2]))

UpdateElementStyle ==
    \E id \in ElementIdArgs, style \in PartialStyles :
        Invoke("updateElementStyle", id, style,
               Editor_updateElementStyle(Editor, id, style))

AddTextElement ==
    \E text \in NewTexts, p \in Points, e \in Extents :
        LET r == Editor_addTextElement(Editor, text, p[1], p[2], e[1], e[2])
        IN  Invoke("addTextElement", IF r.threw THEN NoId ELSE r.ret[1], text, r)

AddImageElement ==
    \E url \in ImageUrls, p \in Points, e \in Extents :
        LET r == Editor_addImageElement(Editor, url, p[1], p[2], e[1], e[2])
        IN  Invoke("addImageElement", IF r.threw THEN NoId ELSE r.ret[1], url, r)

DeleteElement ==
    \E id \in ElementIdArgs :
        Invoke("deleteElement", id, Nothing, Editor_deleteElement(Editor, id))

EditorUndo == Invoke("undo", NoId, Nothing, Editor_undo(Editor))

EditorRedo == Invoke("redo", NoId, Nothing, Editor_redo(Editor))

RevertAllChanges ==
    Invoke("revertAllChanges", NoId, Nothing,
           Result(Editor_revertAllChanges(Editor), Nothing, FALSE, document # NULL))

RevertSlideChanges ==
    \E slideId \in SlideIdArgs :
        Invoke("revertSlideChanges", NoId, slideId,
               Result(Editor_revertSlideChanges(Editor, slideId), Nothing, FALSE,
                      document # NULL))

GoToSlide ==
    \E slideNumber \in 0..Len(slides) :
        /\ Editor_goToSlide(Editor, slideNumber) # Editor
        /\ Invoke("goToSlide", NoId, slideNumber,
                  Result(Editor_goToSlide(Editor, slideNumber), Nothing, FALSE, TRUE))

SelectElement ==
    \E id \in ElementIdArgs \ {MissingId} :
        /\ state.selectedElement # id
        /\ Invoke("selectElement", id, Nothing,
                  Result(Editor_selectElement(Editor, id), Nothing, FALSE, TRUE))

Next ==
    \/ LoadPPTX
    \/ UpdateText
    \/ UpdateElementPosition
    \/ UpdateElementSize
    \/ UpdateElementStyle
    \/ AddTextElement
    \/ AddImageElement
    \/ DeleteElement
    \/ EditorUndo
    \/ EditorRedo
    \/ RevertAllChanges
    \/ RevertSlideChanges
    \/ GoToSlide
    \/ SelectElement

Spec == Init /\ [][Next]_vars

\* ================================================================ Claims
UpdateOps == {"updateText", "updateElementPosition", "updateElementSize",
              "updateElementStyle"}
AddOps == {"addTextElement", "addImageElement"}
MutationOps == UpdateOps \cup AddOps \cup {"deleteElement"}

\* The target of the last call as it is now on the current slide
TargetView == ElementViewIn(Editor, getCurrentSlide(Editor), last.elementId)

\* The most recently recorded change
LastRecord == changes[Len(changes)]

\* C1: a mutation that reached its target (undo/redo enabled) and is directly
\* followed by undo(): undo returns true and the target element has its
\* pre-mutation observable state again (same text, position, size and style
\* after an update, absent after an add, present with the same content after
\* a delete).
C1_UndoRestoresElement ==
    [][(/\ last.op \in MutationOps
        /\ last.found
        /\ options.enableUndoRedo
        /\ last'.op = "undo")
       => (/\ last'.ret = <<TRUE>>
           /\ ElementViewIn(Editor', getCurrentSlide(Editor'), last.elementId)
                = last.preView)]_vars

\* C2: after an update call that reached its target (undo/redo enabled) the
\* newest record has kind update, its previous-state snapshot shows the
\* element as it was before the call and its new-state snapshot shows the
\* element as it is after the call.
C2_UpdateRecordSnapshots ==
    (last.op \in UpdateOps /\ last.found /\ options.enableUndoRedo)
        => (/\ Len(changes) > 0
            /\ LastRecord.type = "update"
            /\ LastRecord.elementId = last.elementId
            /\ View(LastRecord.previousState) = last.preView
            /\ View(LastRecord.newState) = TargetView)

\* ---------------------------------------------------------------- C8, C9
\* The current slide's element refs, <<>> when there is no current slide
CurrentElementsIn(S) ==
    IF getCurrentSlide(S) = 0 THEN <<>>
    ELSE S.slides[getCurrentSlide(S)].elements

CurrentElements == CurrentElementsIn(Editor)

\* How many elements of the current slide of editor S have id elementId
CountOfIn(S, elementId) ==
    Cardinality({i \in 1..Len(CurrentElementsIn(S)) :
                    S.H.elems[CurrentElementsIn(S)[i]].id = elementId})

KindOf(op) ==
    IF op \in UpdateOps THEN "update" ELSE IF op \in AddOps THEN "add" ELSE "delete"

\* The step is a mutating call whose mutation took effect on the target
Applied ==
    CASE last'.op = "updateText" -> TargetView'.content.text = last'.arg
      [] last'.op = "updateElementPosition" ->
            TargetView'.position = [x |-> last'.arg[1], y |-> last'.arg[2]]
      [] last'.op = "updateElementSize" ->
            TargetView'.size = [width |-> last'.arg[1], height |-> last'.arg[2]]
      [] last'.op = "updateElementStyle" ->
            TargetView'.style = MergeStyle(last'.preView.style, last'.arg)
      [] last'.op = "addTextElement" ->
            /\ Len(CurrentElements') = Len(CurrentElements) + 1
            /\ TargetView' # Absent
            /\ TargetView'.content.text = last'.arg
      [] last'.op = "addImageElement" ->
            /\ Len(CurrentElements') = Len(CurrentElements) + 1
            /\ TargetView' # Absent
            /\ TargetView'.content.image = last'.arg
      [] last'.op = "deleteElement" ->
            /\ Len(CurrentElements') = Len(CurrentElements) - 1
            /\ CountOfIn(Editor', last'.elementId) = CountOfIn(Editor, last'.elementId) - 1

\* The step handed exactly one ChangeRecord, for this call, to the tracker
OneRecordMade ==
    /\ nextChangeId' = nextChangeId + 1
    /\ Len(changes') > 0
    /\ currentIndex' = Len(changes') - 1
    /\ LET r == changes'[Len(changes')]
       IN  /\ r.id = nextChangeId
           /\ r.type = KindOf(last'.op)
           /\ r.elementId = last'.elementId
           /\ r.slideId = slides[getCurrentSlide(Editor)].id

NoRecordMade == UNCHANGED <<changes, currentIndex, nextChangeId>>

NotMutated == UNCHANGED <<document, slides, elems, positions, sizes, contents>>

\* The call of the step finds its target: a current slide for an add, an
\* element with the given id on the current slide for an update or delete
FindsTarget ==
    IF last'.op \in AddOps THEN getCurrentSlide(Editor) # 0
    ELSE last'.preView # Absent

\* C8 as stated: every mutating call that finds its target applies the
\* mutation and hands exactly one ChangeRecord to the tracker.
C8_FoundImpliesMutationAndRecord ==
    [][(last'.op \in MutationOps /\ FindsTarget) => (Applied /\ OneRecordMade)]_vars

\* The call of the step gets past its guards: it finds its target, and
\* updateText finds it to be of type text
PassesGuards ==
    /\ FindsTarget
    /\ last'.op = "updateText" => last'.preView.type = "text"

\* C8 (amended): a mutating call that gets past its guards applies the
\* mutation and hands exactly one ChangeRecord to the tracker when
\* enableUndoRedo is on, none when it is off; a call that does not get past
\* them (updateText on an element that is not of type text included) neither
\* mutates nor records.  So no record is ever made without the mutation.
C8_MutationAndRecordWhenEnabled ==
    [][last'.op \in MutationOps =>
        /\ last'.found = PassesGuards
        /\ PassesGuards =>
             /\ Applied
             /\ IF options.enableUndoRedo THEN OneRecordMade ELSE NoRecordMade
        /\ ~PassesGuards => (NotMutated /\ NoRecordMade)]_vars

C8_Witness ==
    /\ last.op \in MutationOps
    /\ last.found
    /\ options.enableUndoRedo
    /\ Len(changes) > 0
    /\ LastRecord.elementId = last.elementId

\* The call of the step has no document, no current slide or no element
NoTarget == ~FindsTarget

\* C9 as stated: a mutating call without document, current slide or element
\* returns without raising an error and leaves the document, the change log
\* and the cursor unchanged.
C9_NoTargetIsSilentNoOp ==
    [][(last'.op \in MutationOps /\ NoTarget)
        => (~last'.threw /\ NotMutated /\ NoRecordMade)]_vars

\* C9 (amended): such a call leaves the document, the change log and the
\* cursor unchanged; the update and delete calls return without raising an
\* error, addTextElement and addImageElement raise one.
C9_NoTargetChangesNothing ==
    [][(last'.op \in MutationOps /\ NoTarget)
        => (/\ NotMutated
            /\ NoRecordMade
            /\ last'.threw = (last'.op \in AddOps))]_vars

C9_Witness ==
    /\ last.op \in UpdateOps \cup {"deleteElement"}
    /\ document # NULL
    /\ getCurrentSlide(Editor) # 0
    /\ last.elementId = MissingId
    /\ ~last.found
    /\ ~last.threw

\* ================================================================ Tracker specification
\* The ChangeTracker used on its own, as the unit tests use it: records with
\* arbitrary type and target, opaque (null) snapshots.
TrackerTargets ==
    {[elementId |-> <<"element", 1>>, slideId |-> <<"slide", 1>>],
     [elementId |-> <<"element", 2>>, slideId |-> <<"slide", 2>>]}

TheTracker == Tracker(changes, currentIndex)

\* new ChangeTracker(maxUndoSteps = 50)
TrackerInit ==
    /\ \E cap \in (1..MaxCap) \cup {DefaultMaxUndoSteps} :
          StartAs([NewEditor(TRUE, 0) EXCEPT !.cap = cap])
    /\ ops = 0
    /\ last = NoCall
    /\ rec = NoRecord

TrackerCall(op, elementId, arg, t, ret, threw) ==
    /\ changes' = t.changes
    /\ currentIndex' = t.currentIndex
    /\ last' = Call(op, elementId, arg, ret, threw, TRUE)
    /\ UNCHANGED <<options, maxUndoSteps, document, slides, elems, positions, sizes,
                   contents, state, nextElemId, originalZip, exported, loading, ops, rec>>

TrackerRecordChange ==
    /\ nextChangeId < MaxRecords
    /\ \E type \in ChangeTypes, target \in TrackerTargets :
          TrackerCall("recordChange", target.elementId, type,
                      recordChange(TheTracker, maxUndoSteps,
                                   ChangeRecord(nextChangeId, type, target.elementId,
                                                target.slideId, NoRef, NoRef)),
                      Nothing, FALSE)
    /\ nextChangeId' = nextChangeId + 1

TrackerUndo ==
    /\ TrackerCall("undo", NoId, Nothing, undo(TheTracker).t, undo(TheTracker).ret, FALSE)
    /\ UNCHANGED nextChangeId

TrackerRedo ==
    /\ TrackerCall("redo", NoId, Nothing, redo(TheTracker).t, redo(TheTracker).ret, FALSE)
    /\ UNCHANGED nextChangeId

TrackerClearHistory ==
    /\ TrackerCall("clearHistory", NoId, Nothing, clearHistory(TheTracker), Nothing, FALSE)
    /\ UNCHANGED nextChangeId

TrackerRevertToChange ==
    /\ \E changeIndex \in -1..Len(changes) :
          LET r == revertToChange(TheTracker, changeIndex)
          IN  TrackerCall("revertToChange", NoId, changeIndex, r.t, <<r.ret>>, r.threw)
    /\ UNCHANGED nextChangeId

TrackerRevertAllChanges ==
    /\ TrackerCall("revertAllChanges", NoId, Nothing, revertAllChanges(TheTracker).t,
                   <<revertAllChanges(TheTracker).ret>>, FALSE)
    /\ UNCHANGED nextChangeId

TrackerNext ==
    \/ TrackerRecordChange
    \/ TrackerUndo
    \/ TrackerRedo
    \/ TrackerClearHistory
    \/ TrackerRevertToChange
    \/ TrackerRevertAllChanges

TrackerSpec == TrackerInit /\ [][TrackerNext]_vars

\* ================================================================ Claims on the tracker
\* C3: immediately after any recordChange, whether or not the cursor was at
\* the tail before it, canRedo() is false, the cursor is on the last record
\* of the log and redo() returns nothing: no record undone before the new
\* edit can be redone after it.
C3_RecordDiscardsRedoBranch ==
    last.op = "recordChange" =>
        /\ ~canRedo(TheTracker)
        /\ currentIndex = Len(changes) - 1
        /\ redo(TheTracker).ret = Nothing
        /\ redo(TheTracker).t = TheTracker

\* a change recorded while the cursor was below the tail
C3_Witness ==
    /\ last.op = "recordChange"
    /\ last.preIndex < last.preLen - 1
    /\ last.preLen >= 2

\* the ids of a log, in order
IdsOf(chs) == [i \in 1..Len(chs) |-> chs[i].id]

\* C4: with capacity N >= 1, after N+k recordChange calls in a row (k >= 0)
\* the log holds exactly N records, the last N recorded in recording order,
\* and the cursor is on the last of them.
C4_BoundedHistoryKeepsNewest ==
    (last.op = "recordChange" /\ maxUndoSteps >= 1 /\ last.run >= maxUndoSteps) =>
        /\ Len(changes) = maxUndoSteps
        /\ IdsOf(changes) = [i \in 1..maxUndoSteps |-> nextChangeId - maxUndoSteps + i - 1]
        /\ currentIndex = maxUndoSteps - 1

\* more calls in a row than the capacity: the oldest have been evicted
C4_Witness ==
    /\ last.op = "recordChange"
    /\ maxUndoSteps >= 2
    /\ last.run > maxUndoSteps

\* C5: undo() with the cursor below 0 returns nothing and changes neither
\* log nor cursor; otherwise it returns the record at the cursor, moves the
\* cursor down by exactly one and leaves the log as it was, so canRedo()
\* holds afterwards.
C5_UndoContract ==
    [][last'.op = "undo" =>
         IF ~canUndo(TheTracker)
         THEN /\ currentIndex < 0
              /\ last'.ret = Nothing
              /\ changes' = changes
              /\ currentIndex' = currentIndex
         ELSE /\ last'.ret = <<changes[currentIndex + 1]>>
              /\ currentIndex' = currentIndex - 1
              /\ changes' = changes
              /\ canRedo(TheTracker')]_vars

\* an undo() that returned a record from a log of two or more
C5_Witness ==
    /\ last.op = "undo"
    /\ last.ret # Nothing
    /\ last.preIndex >= 1
    /\ canRedo(TheTracker)

\* C6: redo() with the cursor at the tail returns nothing and changes
\* neither log nor cursor; otherwise it moves the cursor up by exactly one,
\* returns the record now at the cursor and leaves the log as it was; a
\* redo() right after a successful undo() returns the record that undo()
\* returned and puts the cursor back where it was before the undo().
C6_RedoContract ==
    [][last'.op = "redo" =>
         /\ IF ~canRedo(TheTracker)
            THEN /\ currentIndex = Len(changes) - 1
                 /\ last'.ret = Nothing
                 /\ changes' = changes
                 /\ currentIndex' = currentIndex
            ELSE /\ currentIndex' = currentIndex + 1
                 /\ last'.ret = <<changes'[currentIndex' + 1]>>
                 /\ changes' = changes
         /\ (last.op = "undo" /\ last.ret # Nothing) =>
                /\ last'.ret = last.ret
                /\ currentIndex' = last.preIndex]_vars

\* a redo() that returned a record while more remained to redo
C6_Witness ==
    /\ last.op = "redo"
    /\ last.ret # Nothing
    /\ currentIndex = last.preIndex + 1
    /\ canRedo(TheTracker)

\* ================================================================ Apply specification
\* applyChange and revertChange used on their own on a document and a record.
\* The heap holds three element objects that a slide or a record may refer
\* to: the text box reading "Hello", an object with the same id reading
\* "World", and a picture.
PoolHeap ==
    LET h0 == Heap(<<>>, <<>>, <<>>, <<>>)
        h1 == AllocElement(h0, <<"textbox", 0>>, "text", <<2, 1>>, <<10, 5>>,
                           [text |-> "Hello", image |-> NULL], EmptyStyle, 0)
        h2 == AllocElement(h1, <<"textbox", 0>>, "text", <<2, 1>>, <<10, 5>>,
                           [text |-> "World", image |-> NULL], EmptyStyle, 0)
    IN  AllocElement(h2, <<"picture", 1>>, "image", <<0, 0>>, <<10, 5>>,
                     [text |-> NULL, image |-> "rId"], EmptyStyle, 1)

PoolRefs == 1..Len(PoolHeap.elems)

\* the element lists of a slide: ids are distinct within the slide
SlideContents ==
    {s \in SeqsUpTo(PoolRefs, MaxNodes) :
        \A i, j \in 1..Len(s) : i # j => PoolHeap.elems[s[i]].id # PoolHeap.elems[s[j]].id}

\* every record over the pool, snapshots given or null
PoolRecords ==
    {ChangeRecord(0, type, elementId, slideId, p, n) :
        type \in ChangeTypes,
        elementId \in {PoolHeap.elems[r].id : r \in PoolRefs},
        slideId \in {<<"slide", 1>>, MissingSlideId},
        p \in PoolRefs \cup {NoRef}, n \in PoolRefs \cup {NoRef}}

ApplyInit ==
    /\ \E els \in SlideContents :
          StartAs([NewEditor(TRUE, 0) EXCEPT
                      !.H = PoolHeap, !.document = DOC,
                      !.slides = <<[id |-> <<"slide", 1>>, slideNumber |-> 1,
                                    elements |-> els]>>])
    /\ rec \in PoolRecords
    /\ ops = 0
    /\ last = NoCall

\* A call on the document: last.arg keeps the slides before the call, the
\* slides before the call made before it, and which call that was.
ApplyCall(op, sl) ==
    /\ ops < MaxOps
    /\ ops' = ops + 1
    /\ slides' = sl
    /\ last' = Call(op, rec.elementId,
                    [before |-> slides,
                     before2 |-> IF last.op = "new" THEN slides ELSE last.arg.before,
                     prevOp |-> last.op],
                    Nothing, FALSE, TRUE)
    /\ UNCHANGED <<options, maxUndoSteps, changes, currentIndex, nextChangeId, document,
                   elems, positions, sizes, contents, state, nextElemId, originalZip,
                   exported, loading, rec>>

ApplyChange == ApplyCall("applyChange", applyChange(elems, slides, rec))

RevertChange == ApplyCall("revertChange", revertChange(elems, slides, rec))

ApplyNext ==
    \/ ApplyChange
    \/ RevertChange

ApplySpec == ApplyInit /\ [][ApplyNext]_vars

\* ---------------------------------------------------------------- C7
\* the observable state of the element the record targets, on the slide the
\* record names, in the slides sl; and how many elements there carry its id
TargetIn(sl) ==
    ElementViewIn([Editor EXCEPT !.slides = sl], findSlide(sl, rec.slideId), rec.elementId)

TargetCountIn(sl) ==
    LET si == findSlide(sl, rec.slideId)
    IN  IF si = 0 THEN 0
        ELSE Cardinality({i \in 1..Len(sl[si].elements) :
                             elems[sl[si].elements[i]].id = rec.elementId})

\* a record as the editor makes them: an add carries the new element, a
\* delete the old one, an update both, each with the id the record names
WellFormed ==
    CASE rec.type = "add" ->
            /\ rec.previousState = NoRef
            /\ rec.newState # NoRef
            /\ elems[rec.newState].id = rec.elementId
      [] rec.type = "update" ->
            /\ rec.previousState # NoRef
            /\ rec.newState # NoRef
            /\ elems[rec.previousState].id = rec.elementId
            /\ elems[rec.newState].id = rec.elementId
      [] rec.type = "delete" ->
            /\ rec.previousState # NoRef
            /\ rec.newState = NoRef
            /\ elems[rec.previousState].id = rec.elementId

\* the record is applicable: add, the id is absent; update and delete, the
\* element is present and reads as the record's previous state
ApplicableIn(sl) ==
    IF rec.type = "add" THEN TargetIn(sl) = Absent
    ELSE /\ TargetIn(sl) # Absent
         /\ TargetIn(sl) = View(rec.previousState)

\* the record has been applied: add and update, the element is present and
\* reads as the record's new state; delete, the id is absent
AppliedIn(sl) ==
    IF rec.type = "delete" THEN TargetIn(sl) = Absent
    ELSE /\ TargetIn(sl) # Absent
         /\ TargetIn(sl) = View(rec.newState)

RevertAfterApply == last.op = "revertChange" /\ last.arg.prevOp = "applyChange"
ApplyAfterRevert == last.op = "applyChange" /\ last.arg.prevOp = "revertChange"

\* C7 as stated: from any document in which the record is applicable,
\* revertChange after applyChange and applyChange after revertChange both
\* leave the targeted element with the presence and content it had.
C7_BothRoundTripsFromApplicable ==
    ((RevertAfterApply \/ ApplyAfterRevert) /\ WellFormed /\ ApplicableIn(last.arg.before2))
        => TargetIn(slides) = TargetIn(last.arg.before2)

\* C7: revertChange after applyChange leaves the targeted element with the
\* presence and content it had when the record was applicable before the
\* two calls; applyChange after revertChange does so when the record was in
\* its applied state before the two calls.
C7_RoundTripsFromMatchingState ==
    /\ (RevertAfterApply /\ WellFormed /\ ApplicableIn(last.arg.before2))
          => /\ TargetIn(slides) = TargetIn(last.arg.before2)
             /\ TargetCountIn(slides) = TargetCountIn(last.arg.before2)
    /\ (ApplyAfterRevert /\ WellFormed /\ AppliedIn(last.arg.before2))
          => /\ TargetIn(slides) = TargetIn(last.arg.before2)
             /\ TargetCountIn(slides) = TargetCountIn(last.arg.before2)

\* an update whose two snapshots differ, applied to the matching element
\* and reverted
C7_Witness ==
    /\ RevertAfterApply
    /\ rec.type = "update"
    /\ WellFormed
    /\ ApplicableIn(last.arg.before2)
    /\ View(rec.newState) # View(rec.previousState)
    /\ TargetIn(last.arg.before) = View(rec.newState)

\* ================================================================ Parse specification
\* The first load of a fresh editor, over every container within the bounds:
\* with or without the relationships part, any list of distinct slide
\* targets, each target's part missing, without slide data, without a shape
\* tree, or with a shape tree of any children.  Parts that no relationship
\* names are not read and are left missing.
TreeNodes == {SpNode, PicNode, BadSpNode}

SlideParts ==
    {MissingPart, NoSlideData, NoShapeTree} \cup
    {SlideOf(tree) : tree \in SeqsUpTo(TreeNodes, MaxNodes)}

SlideRels ==
    {r \in SeqsUpTo(1..MaxSlides, MaxSlides) :
        \A i, j \in 1..Len(r) : i # j => r[i] # r[j]}

\* the container whose i-th relationship names part rels[i] with content read[i]
ContainerOf(rels, read) ==
    Container(TRUE, rels,
              [n \in 1..MaxSlides |->
                  IF \E i \in 1..Len(rels) : rels[i] = n
                  THEN read[CHOOSE i \in 1..Len(rels) : rels[i] = n]
                  ELSE MissingPart])

NoRelsContainer == Container(FALSE, <<>>, [n \in 1..MaxSlides |-> MissingPart])

ParseInit ==
    /\ StartAs(NewEditor(TRUE, 0))
    /\ ops = 0
    /\ last = NoCall
    /\ rec = NoRecord

Load(c) ==
    /\ Install(Editor_loadPPTX(Editor, c))
    /\ last' = Call("loadPPTX", NoId, c, Nothing, FALSE, TRUE)

ParseLoad ==
    /\ ops = 0
    /\ \/ Load(NoRelsContainer)
       \/ \E rels \in SlideRels :
             \E read \in [1..Len(rels) -> SlideParts] : Load(ContainerOf(rels, read))
    /\ ops' = ops + 1
    /\ UNCHANGED <<exported, loading, rec>>

ParseNext == ParseLoad

ParseSpec == ParseInit /\ [][ParseNext]_vars

\* every element of the document: the pairs of a slide index and an index
\* into that slide's elements
ElementPlaces ==
    UNION {{<<si, ei>> : ei \in 1..Len(slides[si].elements)} : si \in 1..Len(slides)}

IdAt(p) == elems[slides[p[1]].elements[p[2]]].id

\* C10: immediately after a load, no two elements of the document, on the
\* same slide or on different slides, carry the same id.
C10_LoadedIdsDistinct ==
    last.op = "loadPPTX" =>
        \A p, q \in ElementPlaces : p # q => IdAt(p) # IdAt(q)

\* ================================================================ Claims C11..C20
\* the observable state of the last element of the current slide of editor S
LastElementViewIn(S) ==
    IF CurrentElementsIn(S) = <<>> THEN Absent
    ELSE ViewIn(S.H, CurrentElementsIn(S)[Len(CurrentElementsIn(S))])

\* C11: deleteElement(id) on an existing element of the current slide (undo/redo
\* enabled) directly followed by undo(): undo returns true, the current slide
\* holds exactly one element of that id, it is the last of the slide's
\* elements, and it reads as the element did before the delete, zIndex included.
C11_UndoDeleteReinsertsAtEnd ==
    [][(/\ last.op = "deleteElement"
        /\ last.found
        /\ options.enableUndoRedo
        /\ last'.op = "undo")
       => (/\ last'.ret = <<TRUE>>
           /\ CountOfIn(Editor', last.elementId) = 1
           /\ LastElementViewIn(Editor') = last.preView)]_vars

\* ---------------------------------------------------------------- reloaded editor
\* An editor made with the default options on which loadPPTX has been
\* called twice: the specification of the calls made from there on (ops
\* counts those calls).
ReloadInit ==
    /\ \E c1 \in SampleContainers, c2 \in SampleContainers :
          StartAs(Editor_loadPPTX(Editor_loadPPTX(NewEditor(TRUE, 0), c1), c2))
    /\ ops = 0
    /\ last = [NoCall EXCEPT !.op = "loadPPTX", !.found = TRUE]
    /\ rec = NoRecord

ReloadSpec == ReloadInit /\ [][Next]_vars

\* ================================================================ Slide specification
\* parseSlide used on its own: one slide part, drawn at the start, is decoded
\* into a fresh document.  The part waiting to be decoded is kept in last.arg.
MaxChildren == 3     \* children of the shape tree of the slide part

ChildNodes == {SpNode, PicNode, TxBoxNode, BadSpNode}

SlideInputs ==
    {MissingPart, NoSlideData, NoShapeTree} \cup
    {SlideOf(tree) : tree \in SeqsUpTo(ChildNodes, MaxChildren)}

SlideInit ==
    /\ StartAs(NewEditor(TRUE, 0))
    /\ ops = 0
    /\ \E part \in SlideInputs : last = [NoCall EXCEPT !.arg = part]
    /\ rec = NoRecord

ParseSlide ==
    /\ last.op = "new"
    /\ LET r == parseSlide(TheHeap, last.arg, 1)
       IN  /\ slides' = IF r.ok THEN <<r.slide>> ELSE <<>>
           /\ elems' = r.H.elems
           /\ positions' = r.H.positions
           /\ sizes' = r.H.sizes
           /\ contents' = r.H.contents
           /\ last' = Call("parseSlide", NoId, last.arg, <<r.ok>>, FALSE, r.ok)
    /\ ops' = ops + 1
    /\ UNCHANGED <<options, maxUndoSteps, changes, currentIndex, nextChangeId, document,
                   state, nextElemId, originalZip, exported, loading, rec>>

SlideNext == ParseSlide

SlideSpec == SlideInit /\ [][SlideNext]_vars

\* ---------------------------------------------------------------- C12
\* a child of the shape tree from which an element is extracted
IsExtracted(node) == parseElement(Heap(<<>>, <<>>, <<>>, <<>>), node, 0).ok

\* the element such a child yields, without id and zIndex
ExtractedFrom(node) ==
    LET v == ViewIn(parseElement(Heap(<<>>, <<>>, <<>>, <<>>), node, 0).H, 1)
    IN  [type |-> v.type, position |-> v.position, size |-> v.size, content |-> v.content]

\* C12: decoding a slide gives the extracted children of the shape tree in
\* document order, whatever their types: the i-th element of the slide comes
\* from the i-th extracted child and has zIndex i-1.
C12_ZOrderFollowsDocumentOrder ==
    (last.op = "parseSlide" /\ last.found /\ last.arg.hasSpTree) =>
        LET kept == SelectSeq(last.arg.spTree, IsExtracted)
            elements == slides[1].elements
        IN  /\ Len(elements) = Len(kept)
            /\ \A i \in 1..Len(elements) :
                  /\ View(elements[i]).zIndex = i - 1
                  /\ View(elements[i]).type = ExtractedFrom(kept[i]).type
                  /\ View(elements[i]).position = ExtractedFrom(kept[i]).position
                  /\ View(elements[i]).content = ExtractedFrom(kept[i]).content

\* ================================================================ PPTXExporter
\* document.metadata.title and .subject: parsePresentationProperties sets
\* them only under result.Properties, a key xmlToObject never gives for the
\* root element, so they keep the constructor's ''
MetadataTitle == ""

\* copyOriginalStructure(): every part of the original container is copied
copyOriginalStructure(oz) == oz

\* updateTextElement(xml, element): every <a:t> node of the part gets the
\* element's text (the pattern has the 'g' flag and names no element)
updateTextElement(part, text) ==
    [part EXCEPT !.spTree =
        [i \in 1..Len(part.spTree) |->
            IF part.spTree[i].txBody THEN [part.spTree[i] EXCEPT !.text = text]
            ELSE part.spTree[i]]]

\* updateSlideXML(originalXml, slide): the loop over slide.elements; image
\* and shape elements leave the XML as it is
RECURSIVE updateSlideXML(_, _, _)
updateSlideXML(H, part, elements) ==
    IF elements = <<>> THEN part
    ELSE updateSlideXML(H,
                        IF H.elems[Head(elements)].type = "text"
                        THEN updateTextElement(part, ViewIn(H, Head(elements)).content.text)
                        ELSE part,
                        Tail(elements))

\* findSlidePath(slideNumber): ppt/slides/slide<slideNumber>.xml
findSlidePath(slideNumber) == slideNumber

\* updateSlide(slide): fails says that the update throws, which is caught
updateSlide(H, slide, oz, zip, fails) ==
    LET slidePath == findSlidePath(slide.slideNumber)
    IN  IF slidePath \notin DOMAIN oz.parts THEN zip
        ELSE IF ~oz.parts[slidePath].exists THEN zip
        ELSE IF fails THEN zip
        ELSE [zip EXCEPT !.parts[slidePath] =
                            updateSlideXML(H, oz.parts[slidePath], slide.elements)]

\* updateSlides(): failing holds the indexes of the slides whose update throws
RECURSIVE updateSlidesFrom_AbortOnFailure(_, _, _, _, _, _)
updateSlidesFrom_AbortOnFailure(H, sl, oz, zip, i, failing) ==
    IF i > Len(sl) \/ i \in failing THEN zip
    ELSE updateSlidesFrom_AbortOnFailure(H, sl, oz, updateSlide(H, sl[i], oz, zip, FALSE),
                                         i + 1, failing)

RECURSIVE updateSlidesFrom(_, _, _, _, _, _)
updateSlidesFrom(H, sl, oz, zip, i, failing) ==
    IF i > Len(sl) THEN zip
    ELSE updateSlidesFrom(H, sl, oz, updateSlide(H, sl[i], oz, zip, i \in failing),
                          i + 1, failing)

updateAppXml(zip) ==
    IF ~zip.app.exists THEN zip
    ELSE [zip EXCEPT !.app.title =
            IF MetadataTitle # "" /\ zip.app.title # NULL THEN MetadataTitle ELSE @]

updateCoreXml(zip, now) ==
    IF ~zip.core.exists THEN zip
    ELSE [zip EXCEPT !.core.modified = IF @ # NULL THEN now ELSE @]

\* updateMetadata(): one try block around both updates
updateMetadata(zip, now, appFails, coreFails) ==
    IF appFails THEN zip
    ELSE IF coreFails THEN updateAppXml(zip)
    ELSE updateCoreXml(updateAppXml(zip), now)

\* PPTXExporter.exportPPTX(): the container built
Exporter_exportPPTX(H, sl, oz, now, failing, appFails, coreFails) ==
    updateMetadata(updateSlidesFrom(H, sl, oz, copyOriginalStructure(oz), 1, failing),
                   now, appFails, coreFails)

\* PPTXEditor.exportPPTX(): throws without exporter or document
Editor_exportPPTX(S, now, failing, appFails, coreFails) ==
    IF S.originalZip = NoZip \/ S.document = NULL
    THEN [zip |-> NoZip, threw |-> TRUE]
    ELSE [zip |-> Exporter_exportPPTX(S.H, S.slides, S.originalZip, now, failing,
                                      appFails, coreFails),
          threw |-> FALSE]

\* ================================================================ Export specification
\* Loads, text edits, adds, deletes and exports on an editor made with the
\* default options.  The containers: a lone text box; a titled shape beside
\* a text box; a text box whose text is padded with blanks; a slide part
\* that no relationship names beside the one that is named; a slide without
\* text elements; a container without metadata parts; two slides.
TitledContainer ==
    Container(TRUE, <<1>>, [n \in 1..MaxSlides |->
        IF n = 1 THEN SlideOf(<<TitleNode, TxBoxNode>>) ELSE MissingPart])
PaddedContainer ==
    Container(TRUE, <<1>>, [n \in 1..MaxSlides |->
        IF n = 1 THEN SlideOf(<<PaddedTxBoxNode>>) ELSE MissingPart])
OrphanContainer ==
    Container(TRUE, <<2>>, [n \in 1..MaxSlides |->
        IF n = 1 THEN SlideOf(<<TitleNode>>)
        ELSE IF n = 2 THEN SlideOf(<<TxBoxNode>>) ELSE MissingPart])
ShapesContainer ==
    Container(TRUE, <<1>>, [n \in 1..MaxSlides |->
        IF n = 1 THEN SlideOf(<<TitleNode, PicNode>>) ELSE MissingPart])
NoMetadataContainer ==
    [HelloContainer EXCEPT !.app = AppPart(FALSE, NULL), !.core = CorePart(FALSE, NULL)]

\* the first relationship names slide2.xml, the second slide1.xml
SwappedContainer ==
    Container(TRUE, <<2, 1>>, [n \in 1..MaxSlides |->
        IF n = 1 THEN SlideOf(<<TitleNode>>)
        ELSE IF n = 2 THEN SlideOf(<<TxBoxNode>>) ELSE MissingPart])

ExportContainers ==
    {HelloContainer, TitledContainer, PaddedContainer, OrphanContainer, ShapesContainer,
     NoMetadataContainer, TwoSlideContainer}

Timestamps == {"2024-06-01"}

ExportInit ==
    /\ StartAs(NewEditor(TRUE, 0))
    /\ ops = 0
    /\ last = NoCall
    /\ rec = NoRecord

ExportLoad ==
    \E c \in ExportContainers :
        Invoke("loadPPTX", NoId, Nothing,
               Result(Editor_loadPPTX(Editor, c), Nothing, FALSE, TRUE))

\* exportPPTX(): last.arg keeps the time of the export and which updates
\* threw; last.ret is the number of recorded changes at the time
ExportPPTX ==
    /\ ops < MaxOps
    /\ \E now \in Timestamps, failing \in SUBSET (1..Len(slides)),
          appFails \in BOOLEAN, coreFails \in BOOLEAN :
          LET r == Editor_exportPPTX(Editor, now, failing, appFails, coreFails)
          IN  /\ exported' = IF r.threw THEN exported ELSE r.zip
              /\ last' = Call("exportPPTX", NoId,
                              [now |-> now, failing |-> failing,
                               appFails |-> appFails, coreFails |-> coreFails],
                              Nothing, r.threw, ~r.threw)
    /\ ops' = ops + 1
    /\ UNCHANGED <<options, maxUndoSteps, changes, currentIndex, nextChangeId, document,
                   slides, elems, positions, sizes, contents, state, nextElemId,
                   originalZip, loading, rec>>

ExportNext ==
    \/ ExportLoad
    \/ GoToSlide
    \/ UpdateText
    \/ AddTextElement
    \/ DeleteElement
    \/ ExportPPTX

ExportSpec == ExportInit /\ [][ExportNext]_vars

\* ---------------------------------------------------------------- C13..C16
\* the last call is an export that built a container
Exported == last.op = "exportPPTX" /\ ~last.threw

\* C13: an export made when no mutation has ever been applied builds a
\* container whose slide parts, relationships, media part and app.xml are
\* those of the loaded container; only core.xml may differ.
C13_ExportOfUnmodifiedIsIdentical ==
    (Exported /\ nextChangeId = 0) =>
        /\ exported.parts = originalZip.parts
        /\ exported.hasRels = originalZip.hasRels
        /\ exported.rels = originalZip.rels
        /\ exported.media = originalZip.media
        /\ exported.app = originalZip.app

\* C14: an export made after one updateText on a text element (the only
\* mutation since the load) leaves the text nodes of the children that are
\* not text boxes, in every slide part, as they were loaded.
C14_ExportKeepsOtherTextNodes ==
    (/\ Exported
     /\ Len(changes) = 1
     /\ currentIndex = 0
     /\ changes[1].type = "update"
     /\ elems[changes[1].newState].type = "text")
    => \A n \in DOMAIN originalZip.parts :
          \A i \in 1..Len(originalZip.parts[n].spTree) :
             originalZip.parts[n].spTree[i].tag # "p:txBox"
                => exported.parts[n].spTree[i] = originalZip.parts[n].spTree[i]

\* the slide parts from which a slide was decoded at the last load
DecodedParts ==
    IF ~originalZip.hasRels THEN {}
    ELSE {originalZip.rels[i] : i \in {j \in 1..Len(originalZip.rels) :
            parseSlide(Heap(<<>>, <<>>, <<>>, <<>>),
                       originalZip.parts[originalZip.rels[j]], j).ok}}

\* C15: an export builds a container with exactly the parts of the loaded
\* one, and every part that is neither a slide part of a decoded slide nor
\* app.xml or core.xml is as it was loaded.
C15_ExportKeepsPartsAndOtherBytes ==
    Exported =>
        /\ DOMAIN exported.parts = DOMAIN originalZip.parts
        /\ \A n \in DOMAIN originalZip.parts :
              /\ exported.parts[n].exists = originalZip.parts[n].exists
              /\ n \notin DecodedParts => exported.parts[n] = originalZip.parts[n]
        /\ exported.app.exists = originalZip.app.exists
        /\ exported.core.exists = originalZip.core.exists
        /\ exported.hasRels = originalZip.hasRels
        /\ exported.rels = originalZip.rels
        /\ exported.media = originalZip.media

\* the export that the last call would have built had no update thrown
FullExport ==
    Exporter_exportPPTX(TheHeap, slides, originalZip, last.arg.now, {}, FALSE, FALSE)

\* the parts that a slide whose update threw / did not throw is written to
FailedPaths == {findSlidePath(slides[i].slideNumber) : i \in last.arg.failing}
UpdatedPaths ==
    {findSlidePath(slides[i].slideNumber) : i \in (1..Len(slides)) \ last.arg.failing}

\* C16: an export on a loaded editor completes with a container whatever
\* updates throw; a slide part whose updates all threw is as loaded, every
\* other slide part is as the export without failures builds it; a metadata
\* part whose update threw is as loaded.
C16_ExportSurvivesFailedUpdates ==
    (last.op = "exportPPTX" /\ document # NULL) =>
        /\ ~last.threw
        /\ exported # NoZip
        /\ \A n \in DOMAIN originalZip.parts :
              /\ n \in FailedPaths \ UpdatedPaths => exported.parts[n] = originalZip.parts[n]
              /\ n \notin FailedPaths => exported.parts[n] = FullExport.parts[n]
        /\ last.arg.appFails => exported.app = originalZip.app
        /\ (last.arg.appFails \/ last.arg.coreFails) => exported.core = originalZip.core
        /\ ~last.arg.appFails => exported.app = FullExport.app
        /\ (~last.arg.appFails /\ ~last.arg.coreFails) => exported.core = FullExport.core

\* the update of the first slide threw and a later slide's part was rewritten
C16_Witness ==
    /\ Exported
    /\ 1 \in last.arg.failing
    /\ exported.parts[1] = originalZip.parts[1]
    /\ \E i \in 2..Len(slides) :
          /\ i \notin last.arg.failing
          /\ findSlidePath(slides[i].slideNumber) # 1
          /\ exported.parts[findSlidePath(slides[i].slideNumber)]
                # originalZip.parts[findSlidePath(slides[i].slideNumber)]

\* ================================================================ Loading specification
\* loadPPTX step by step, as the awaits of the code cut it: the container is
\* opened, the slide relationships are decoded one by one, each decoded
\* slide being pushed onto the parser's document, and at the end the editor
\* takes the document, clears the history and refreshes its state.  One
\* load is in flight at a time; text edits may come in between the steps.
CorruptFile == "corrupt"

\* JSZip.loadAsync(file) resolves: the editor keeps the container, the
\* parser opens it
BeginLoad ==
    /\ loading = NoLoad
    /\ ops < MaxOps
    /\ \E c \in SampleContainers :
          /\ originalZip' = c
          /\ loading' = [c |-> c, i |-> 1]
    /\ ops' = ops + 1
    /\ UNCHANGED <<options, maxUndoSteps, changes, currentIndex, nextChangeId, document,
                   slides, elems, positions, sizes, contents, state, nextElemId,
                   exported, last, rec>>

\* JSZip.loadAsync(file) rejects: loadPPTX throws
FailLoad ==
    /\ loading = NoLoad
    /\ ops < MaxOps
    /\ last' = Call("loadPPTX", NoId, CorruptFile, Nothing, TRUE, FALSE)
    /\ ops' = ops + 1
    /\ UNCHANGED <<options, maxUndoSteps, changes, currentIndex, nextChangeId, document,
                   slides, elems, positions, sizes, contents, state, nextElemId,
                   originalZip, exported, loading, rec>>

\* one turn of the loop of parseSlides
DecodeSlide ==
    /\ loading # NoLoad
    /\ loading.c.hasRels
    /\ loading.i <= Len(loading.c.rels)
    /\ LET r == parseSlide(TheHeap, loading.c.parts[loading.c.rels[loading.i]], loading.i)
       IN  /\ slides' = IF r.ok THEN Append(slides, r.slide) ELSE slides
           /\ elems' = r.H.elems
           /\ positions' = r.H.positions
           /\ sizes' = r.H.sizes
           /\ contents' = r.H.contents
    /\ loading' = [loading EXCEPT !.i = @ + 1]
    /\ UNCHANGED <<options, maxUndoSteps, changes, currentIndex, nextChangeId, document,
                   state, nextElemId, originalZip, exported, ops, last, rec>>

\* parsePPTX returns: this.document = ..., clearHistory(), updateState()
FinishLoad ==
    /\ loading # NoLoad
    /\ ~loading.c.hasRels \/ loading.i > Len(loading.c.rels)
    /\ Install(updateState([Editor EXCEPT !.document = DOC, !.t = clearHistory(@)]))
    /\ last' = Call("loadPPTX", NoId, loading.c, Nothing, FALSE, TRUE)
    /\ loading' = NoLoad
    /\ UNCHANGED <<exported, ops, rec>>

LoadingNext ==
    \/ BeginLoad
    \/ FailLoad
    \/ DecodeSlide
    \/ FinishLoad
    \/ UpdateText

LoadingSpec == ExportInit /\ [][LoadingNext]_vars

\* ---------------------------------------------------------------- C17
\* C17: while a load is in flight on an editor that already holds a document,
\* a decode step does not change the slides and elements that getDocument()
\* and getSlides() give.
C17_DecodeStepsAreInvisible ==
    [][(/\ loading # NoLoad
        /\ loading' # NoLoad
        /\ loading'.i # loading.i
        /\ document # NULL)
       => UNCHANGED <<document, slides, elems, positions, sizes, contents>>]_vars


\* ---------------------------------------------------------------- C18
\* What one container decodes to on a parser that has decoded nothing yet
DecodedAlone(c) == parseSlides(Heap(<<>>, <<>>, <<>>, <<>>), <<>>, c)

\* The slides of a decode as seen from outside: each slide's id and the
\* observable state of its elements, in order
SlideViews(H, sl) ==
    [k \in 1..Len(sl) |->
        [id |-> sl[k].id,
         elements |-> [j \in 1..Len(sl[k].elements) |-> ViewIn(H, sl[k].elements[j])]]]

\* C18: after every successful loadPPTX, the first or a later one, the
\* document holds exactly the slides decoded from the container just loaded,
\* in relationship order, and nothing of a container loaded before.
C18_DocumentHoldsOnlyLoadedContainer ==
    (last.op = "loadPPTX" /\ ~last.threw)
    => SlideViews(TheHeap, slides)
         = SlideViews(DecodedAlone(originalZip).H, DecodedAlone(originalZip).slides)


\* ---------------------------------------------------------------- C19
\* C19: after a successful loadPPTX the tracker is empty whatever it held
\* before: no record, cursor -1, canUndo and canRedo false in the editor
\* state, and undo() and redo() return false; they go on returning false,
\* leaving the tracker empty, for as long as no record has been made.
C19_LoadClearsHistory ==
    /\ (last.op = "loadPPTX" /\ ~last.threw)
       => /\ changes = <<>>
          /\ currentIndex = -1
          /\ ~state.canUndo
          /\ ~state.canRedo
          /\ Editor_undo(Editor).ret = <<FALSE>>
          /\ Editor_redo(Editor).ret = <<FALSE>>
    /\ (last.op \in {"undo", "redo"} /\ last.preLen = 0)
       => /\ last.ret = <<FALSE>>
          /\ changes = <<>>
          /\ currentIndex = -1

\* a load made on an editor whose history held records
C19_Witness ==
    /\ last.op = "loadPPTX"
    /\ ~last.threw
    /\ last.preLen > 0
    /\ document # NULL


\* ---------------------------------------------------------------- C20
\* the relationship indexes of container c whose slide decodes
Decodable(c) ==
    IF ~c.hasRels THEN {}
    ELSE {i \in 1..Len(c.rels) :
             parseSlide(Heap(<<>>, <<>>, <<>>, <<>>), c.parts[c.rels[i]], i).ok}

\* slide `slide` of heap H is what relationship i of container c decodes to
IsSlideOf(H, slide, c, i) ==
    LET r == parseSlide(Heap(<<>>, <<>>, <<>>, <<>>), c.parts[c.rels[i]], i)
    IN  SlideViews(H, <<slide>>) = SlideViews(r.H, <<r.slide>>)

\* C20: a slide whose part is missing or has no p:cSld is left out of the
\* document and the load does not fail; every other slide named by the
\* presentation relationships is decoded and present, in relationship order.
C20_FailedSlidesOmittedOthersKept ==
    last.op = "loadPPTX" =>
        /\ ~last.threw
        /\ document # NULL
        /\ {slides[k].slideNumber : k \in 1..Len(slides)} = Decodable(last.arg)
        /\ \A k, l \in 1..Len(slides) :
              k < l => slides[k].slideNumber < slides[l].slideNumber
        /\ \A k \in 1..Len(slides) :
              IsSlideOf(TheHeap, slides[k], last.arg, slides[k].slideNumber)

\* a load in which a slide that does not decode comes before one that does
C20_Witness ==
    /\ last.op = "loadPPTX"
    /\ last.arg # Nothing
    /\ last.arg.hasRels
    /\ \E i, j \in 1..Len(last.arg.rels) :
          /\ i < j
          /\ i \notin Decodable(last.arg)
          /\ j \in Decodable(last.arg)
          /\ \E k \in 1..Len(slides) : slides[k].slideNumber = j


\* ================================================================ Claims C21..C30
\* ---------------------------------------------------------------- C21
\* what the two snapshots of a record show when read through heap H
SnapshotsIn(H, change) ==
    [previousState |-> ViewIn(H, change.previousState),
     newState |-> ViewIn(H, change.newState)]

\* C21: a record that stays in the history is never modified: across every
\* step, its fields and what its previous-state and new-state snapshots show
\* are the same before and after.
C21_RecordsNeverModified ==
    [][\A i \in 1..Len(changes) : \A j \in 1..Len(changes') :
          changes[i].id = changes'[j].id
          => /\ changes'[j] = changes[i]
             /\ SnapshotsIn(TheHeap', changes'[j]) = SnapshotsIn(TheHeap, changes[i])]_vars


\* ---------------------------------------------------------------- C22
\* C22 as stated: deleteElement leaves the selected-element state as it is,
\* also when the deleted element was the selected one.
C22_DeleteLeavesSelection ==
    [][last'.op = "deleteElement"
       => state'.selectedElement = state.selectedElement]_vars

\* C22 (amended): deleteElement itself clears the selection when the element
\* it deleted was the selected one, and leaves the selection as it is in
\* every other case.
C22_DeleteClearsSelectionOfDeleted ==
    [][last'.op = "deleteElement"
       => state'.selectedElement =
             IF last'.found /\ state.selectedElement = last'.elementId
             THEN NoId
             ELSE state.selectedElement]_vars

\* the selected element was deleted
C22_Witness ==
    /\ last.op = "deleteElement"
    /\ last.found
    /\ last.preSelected = last.elementId
    /\ state.selectedElement = NoId


\* ---------------------------------------------------------------- C23
\* C23: an editor on which no load has been made has no document, no slides
\* and no current slide, current slide index 0, an empty history with all
\* summary counts 0, canUndo and canRedo false; undo() and redo() return
\* false and change nothing.
C23_NewEditorIsEmpty ==
    document = NULL =>
        /\ getSlides(Editor) = <<>>
        /\ getCurrentSlide(Editor) = 0
        /\ state.currentSlide = 0
        /\ changes = <<>>
        /\ currentIndex = -1
        /\ state.changes = <<>>
        /\ getChangeSummary(TheTracker) =
              [totalChanges |-> 0, additions |-> 0, updates |-> 0, deletions |-> 0]
        /\ ~state.canUndo
        /\ ~state.canRedo
        /\ Editor_undo(Editor).ret = <<FALSE>>
        /\ Editor_undo(Editor).S = Editor
        /\ Editor_redo(Editor).ret = <<FALSE>>
        /\ Editor_redo(Editor).S = Editor
        /\ last.op \in {"undo", "redo"} => last.ret = <<FALSE>>

\* undo() was called on an editor that never loaded a file
C23_Witness ==
    /\ document = NULL
    /\ last.op = "undo"
    /\ last.ret = <<FALSE>>
    /\ options.enableUndoRedo


\* ---------------------------------------------------------------- C24
\* The tracker alone, with records of one element on two slides and of two
\* elements on one slide, and the two filters called on it.
FilterTargets ==
    {[elementId |-> <<"element", 1>>, slideId |-> <<"slide", 1>>],
     [elementId |-> <<"element", 2>>, slideId |-> <<"slide", 1>>],
     [elementId |-> <<"element", 2>>, slideId |-> <<"slide", 2>>]}

FilterRecordChange ==
    /\ nextChangeId < MaxRecords
    /\ \E target \in FilterTargets :
          TrackerCall("recordChange", target.elementId, "update",
                      recordChange(TheTracker, maxUndoSteps,
                                   ChangeRecord(nextChangeId, "update", target.elementId,
                                                target.slideId, NoRef, NoRef)),
                      Nothing, FALSE)
    /\ nextChangeId' = nextChangeId + 1

GetChangesForElement ==
    /\ \E target \in FilterTargets :
          TrackerCall("getChangesForElement", NoId, target.elementId, TheTracker,
                      <<getChangesForElement(TheTracker, target.elementId)>>, FALSE)
    /\ UNCHANGED nextChangeId

GetChangesForSlide ==
    /\ \E target \in FilterTargets :
          TrackerCall("getChangesForSlide", NoId, target.slideId, TheTracker,
                      <<getChangesForSlide(TheTracker, target.slideId)>>, FALSE)
    /\ UNCHANGED nextChangeId

FilterNext ==
    \/ FilterRecordChange
    \/ TrackerUndo
    \/ TrackerRedo
    \/ GetChangesForElement
    \/ GetChangesForSlide

FilterSpec == TrackerInit /\ [][FilterNext]_vars

\* the indexes of the records of `log` whose field `key` is v
MatchingIndexes(log, key, v) == {i \in 1..Len(log) : log[i][key] = v}

\* r holds exactly the records of `log` whose field `key` is v, in log order
IsFilterOf(r, log, key, v) ==
    LET M == MatchingIndexes(log, key, v)
    IN  /\ Len(r) = Cardinality(M)
        /\ \A k \in 1..Len(r) :
              r[k] = log[CHOOSE i \in M : Cardinality({j \in M : j <= i}) = k]

\* C24: getChangesForElement(e) returns exactly the records of the log whose
\* elementId is e and getChangesForSlide(s) exactly those whose slideId is s,
\* in log order, records after the cursor included; neither call changes the
\* log or the cursor.
C24_FiltersAreExactAndPure ==
    [][/\ last'.op = "getChangesForElement"
          => /\ IsFilterOf(last'.ret[1], changes, "elementId", last'.arg)
             /\ changes' = changes
             /\ currentIndex' = currentIndex
       /\ last'.op = "getChangesForSlide"
          => /\ IsFilterOf(last'.ret[1], changes, "slideId", last'.arg)
             /\ changes' = changes
             /\ currentIndex' = currentIndex]_vars

\* getChangesForElement was called with records after the cursor, and gave
\* some but not all records of the log, one of them from after the cursor
C24_Witness ==
    /\ last.op = "getChangesForElement"
    /\ currentIndex < Len(changes) - 1
    /\ Len(last.ret[1]) \in 1..(Len(changes) - 1)
    /\ changes[Len(changes)].elementId = last.arg


\* ---------------------------------------------------------------- C25
\* C25: no slide ever holds two elements with the same id.
C25_NoDuplicateIdsOnASlide ==
    \A si \in 1..Len(slides) :
        \A i, j \in 1..Len(slides[si].elements) :
            i # j => elems[slides[si].elements[i]].id # elems[slides[si].elements[j]].id


\* ================================================================ Relationship order
\* An editor that has loaded a container with two slides, the relationships
\* naming the slide parts either in the order of their numbers or in the
\* other order; text is edited and the document is exported.
RelOrderInit ==
    /\ \E c \in {TwoSlideContainer, SwappedContainer} :
          StartAs(Editor_loadPPTX(NewEditor(TRUE, 0), c))
    /\ ops = 0
    /\ last = [NoCall EXCEPT !.op = "loadPPTX", !.found = TRUE]
    /\ rec = NoRecord

RelOrderNext ==
    \/ GoToSlide
    \/ UpdateText
    \/ ExportPPTX

RelOrderSpec == RelOrderInit /\ [][RelOrderNext]_vars

\* ---------------------------------------------------------------- C26
\* the slides of the document are those of the last load alone
OnlyLastLoad == Len(slides) = Len(DecodedAlone(originalZip).slides)

\* the part of the loaded container that slide k was decoded from: the target
\* of the relationship the slide was numbered after
OriginOf(k) == originalZip.rels[slides[k].slideNumber]

\* what part n holds once the substitutions of the slide decoded from it, if
\* there is one, are written into it
WithOwnSubstitutions(n) ==
    IF \E k \in 1..Len(slides) : OriginOf(k) = n
    THEN updateSlideXML(TheHeap, originalZip.parts[n],
                        slides[CHOOSE k \in 1..Len(slides) : OriginOf(k) = n].elements)
    ELSE originalZip.parts[n]

\* C26: an export in which no update throws writes the substitutions of each
\* slide into the part that slide was decoded from, whatever the order of the
\* slide targets in the presentation relationships.
C26_ExportWritesSlideToItsOwnPart ==
    (Exported /\ OnlyLastLoad /\ last.arg.failing = {})
    => \A n \in DOMAIN originalZip.parts :
          originalZip.parts[n].exists => exported.parts[n] = WithOwnSubstitutions(n)


\* ================================================================ Edit specification
\* An editor with default options on which one file was loaded; mutations,
\* undo, redo and slide changes are made on it, and a behaviour ends with the
\* first revertAllChanges or revertSlideChanges.
EditInit ==
    /\ \E c \in SampleContainers : StartAs(Editor_loadPPTX(NewEditor(TRUE, 0), c))
    /\ ops = 0
    /\ last = [NoCall EXCEPT !.op = "loadPPTX", !.found = TRUE]
    /\ rec = NoRecord

RevertOps == {"revertAllChanges", "revertSlideChanges"}

\* no revertAllChanges or revertSlideChanges was made yet
Unreverted == last.op \notin RevertOps

EditNext ==
    \/ (Unreverted /\ UpdateText)
    \/ (Unreverted /\ UpdateElementPosition)
    \/ (Unreverted /\ UpdateElementStyle)
    \/ (Unreverted /\ AddTextElement)
    \/ (Unreverted /\ DeleteElement)
    \/ (Unreverted /\ EditorUndo)
    \/ (Unreverted /\ EditorRedo)
    \/ (Unreverted /\ GoToSlide)
    \/ (Unreverted /\ RevertAllChanges)
    \/ (Unreverted /\ RevertSlideChanges)

EditSpec == EditInit /\ [][EditNext]_vars

\* ---------------------------------------------------------------- C27
\* the states of the elements of each slide, slide by slide
ElementStates(H, sl) ==
    [k \in 1..Len(sl) |-> {ViewIn(H, sl[k].elements[j]) : j \in 1..Len(sl[k].elements)}]

\* the element states right after the load
LoadedStates ==
    ElementStates(DecodedAlone(originalZip).H, DecodedAlone(originalZip).slides)

\* every record made since the load is still in the log
NothingDiscarded == nextChangeId = Len(changes)

\* C27 (k = n, j = 0): after n recorded mutations and n successful undo()
\* calls every element is in the state it had before the first mutation,
\* which is the state it was loaded in.
C27_UndoingAllGivesLoadedState ==
    (/\ last.op = "undo"
     /\ last.ret = <<TRUE>>
     /\ currentIndex = -1
     /\ NothingDiscarded)
    => ElementStates(TheHeap, slides) = LoadedStates


\* ---------------------------------------------------------------- C28
\* C28: on a tracker of capacity N >= 1 the cursor is always between -1 and
\* the last index of the log and the log never holds more than N records;
\* revertToChange with an index outside the log raises an error and changes
\* neither log nor cursor.
C28_CursorAndLengthBounds ==
    /\ [](maxUndoSteps >= 1 =>
             /\ -1 <= currentIndex
             /\ currentIndex <= Len(changes) - 1
             /\ Len(changes) <= maxUndoSteps)
    /\ [][(last'.op = "revertToChange" /\ last'.arg \notin 0..(Len(changes) - 1))
          => /\ last'.threw
             /\ changes' = changes
             /\ currentIndex' = currentIndex]_vars

\* revertToChange was called on a log with records, with the index one
\* past the last record
C28_Witness ==
    /\ last.op = "revertToChange"
    /\ last.preLen >= 1
    /\ last.arg = last.preLen
    /\ last.threw
    /\ Len(changes) = maxUndoSteps


\* ---------------------------------------------------------------- C29
\* the number of elements of each slide
ElementCounts(sl) == [k \in 1..Len(sl) |-> Len(sl[k].elements)]

\* C29: after revertAllChanges(), wherever the cursor was, the history is
\* empty, undo() and redo() return false, and every slide holds exactly the
\* elements, in the same state, that it held before the oldest change of the
\* history; with every record made since the load still in the log, that is
\* the loaded state.
C29_RevertAllGivesStateBeforeOldest ==
    (last.op = "revertAllChanges" /\ last.preLen = nextChangeId)
    => /\ changes = <<>>
       /\ currentIndex = -1
       /\ Editor_undo(Editor).ret = <<FALSE>>
       /\ Editor_redo(Editor).ret = <<FALSE>>
       /\ ElementCounts(slides) = ElementCounts(DecodedAlone(originalZip).slides)
       /\ ElementStates(TheHeap, slides) = LoadedStates


\* ---------------------------------------------------------------- C30
\* the states of the elements of the slides whose id is not slideId
OtherSlidesStates(H, sl, slideId) ==
    [k \in {i \in 1..Len(sl) : sl[i].id # slideId} |->
        {ViewIn(H, sl[k].elements[j]) : j \in 1..Len(sl[k].elements)}]

\* the states of the elements of the slides whose id is slideId
SlideStates(H, sl, slideId) ==
    [k \in {i \in 1..Len(sl) : sl[i].id = slideId} |->
        {ViewIn(H, sl[k].elements[j]) : j \in 1..Len(sl[k].elements)}]

\* C30: after revertSlideChanges(s) the elements of slide s have the state
\* they had before the earliest recorded change of slide s in the history
\* (with every record made since the load still in the log and none of them
\* undone, that is the state slide s was loaded in), and the elements of
\* every other slide are as they were before the call.
C30_RevertSlideGivesStateBeforeEarliest ==
    [][(/\ last'.op = "revertSlideChanges"
        /\ document # NULL
        /\ NothingDiscarded
        /\ currentIndex = Len(changes) - 1)
       => /\ SlideStates(TheHeap', slides', last'.arg)
               = SlideStates(DecodedAlone(originalZip).H,
                             DecodedAlone(originalZip).slides, last'.arg)
          /\ OtherSlidesStates(TheHeap', slides', last'.arg)
               = OtherSlidesStates(TheHeap, slides, last'.arg)]_vars
====
